---- MODULE Spec2Model ----
(***************************************************************************)
(* A model of the PingPong game (src/include/game.hpp): paddle and ball    *)
(* physics, the AI driver, the particle and flash effects, the menu /      *)
(* match state machine of Window::mainloop, and the renderer with the      *)
(* window's pixel buffer.                                                  *)
(*                                                                         *)
(* Numbers.  The program computes in 32-bit floats.  The model computes in *)
(* fixed point: a length, velocity or acceleration v is the integer v * U  *)
(* (U = 10000, so the literal 0.0001f is 1), a time is a whole number of   *)
(* 1/CS seconds (CS = 100, so 0.35f is 35), and a product is truncated     *)
(* toward zero to that grid (MulDiv).  On the inputs drawn below the       *)
(* products are exact unless a comment says otherwise.  The renderer       *)
(* (render_rect, render_glyph_5x7, render_text) is computed in float32     *)
(* itself: a float is the pair <<m, e>> for m * 2^e, every operation       *)
(* rounds to nearest, ties to even, and a decimal literal k / U is the     *)
(* float nearest to it (F32).  Float overflow to inf / NaN is outside the  *)
(* model.                                                                  *)
(*                                                                         *)
(* Not modelled: what the game draws in a tick (the renderer is modelled   *)
(* on its own, SpecRender; of the texts of the main loop only the          *)
(* countdown text and the winner line of the time-up banner are kept),     *)
(* pixel colours, World::total_time, Player::pulse_timer and               *)
(* celebration_time (written, read only to pick a colour or never),        *)
(* particle positions and velocities (drawn only), audio playback (the     *)
(* cues requested in a tick are recorded in obs) and the F11 fullscreen    *)
(* toggle.  A tick of the main loop is taken to run with an allocated      *)
(* pixel buffer (the loop skips the game otherwise).                       *)
(***************************************************************************)
EXTENDS Integers, Sequences, FiniteSets, TLC

VARIABLES
    p1,        \* Window::player1  (objects::Player)
    p2,        \* Window::player2
    ball,      \* Window::ball.controller (objects::BallController)
    burst,     \* Window::particle_burst  (particles: sequence of lives)
    flash,     \* Window::flash
    win,       \* the members of Window that the main loop branches on
    buttons,   \* input::buttons
    cfg,       \* Window::game_config
    io,        \* inputs and result of the last call of a pure function
    obs,       \* what the last step did (operation, dt, branches taken)
    ticks      \* number of steps taken (bounds the exploration)

vars == <<p1, p2, ball, burst, flash, win, buttons, cfg, io, obs, ticks>>

----------------------------------------------------------------------------
(* Fixed point                                                             *)

U == 10000
CS == 100

Abs(a) == IF a < 0 THEN -a ELSE a
Sgn(a) == IF a < 0 THEN -1 ELSE IF a > 0 THEN 1 ELSE 0
Max(a, b) == IF a > b THEN a ELSE b
Min(a, b) == IF a < b THEN a ELSE b

\* The element of a one-element set.  { F(x) : x \in {e} } evaluates e once
\* and hands its value to F.
TheOne(S) == CHOOSE x \in S : TRUE

\* <<q, r>> with a * b = q * c + r and 0 <= r < c, for a, b >= 0 and c > 0,
\* computed without forming a * b (which need not fit the checker's integers).
RECURSIVE MulDivNat(_, _, _)
MulDivNat(a, b, c) ==
    IF b = 0 THEN <<0, 0>>
    ELSE LET h   == MulDivNat(a, b \div 2, c)
             odd == (b % 2 = 1)
             r   == 2 * h[2] + (IF odd THEN a % c ELSE 0)
             q   == 2 * h[1] + (IF odd THEN a \div c ELSE 0)
         IN  <<q + (r \div c), r % c>>

\* a * b / c truncated toward zero (c # 0).
MulDiv(a, b, c) ==
    IF a = 0 \/ b = 0 THEN 0
    ELSE LET s  == Sgn(a) * Sgn(b) * Sgn(c)
             aa == Abs(a)
             bb == Abs(b)
             cc == Abs(c)
         IN  IF aa <= 2147483647 \div bb
             THEN s * ((aa * bb) \div cc)
             ELSE s * MulDivNat(aa, bb, cc)[1]

\* a / c truncated toward zero.
TDiv(a, c) == MulDiv(a, 1, c)

\* v * dt for a time dt in 1/CS seconds.
MulDt(v, dt) == MulDiv(v, dt, CS)

\* std::fmod(a, b) for b > 0: the remainder has the sign of a.
Fmod(a, b) == IF a >= 0 THEN a % b ELSE -((-a) % b)

----------------------------------------------------------------------------
(* float32 of the renderer                                                 *)
(*                                                                         *)
(* The renderer rounds its coordinates to pixels (lroundf), so its floats  *)
(* are computed as the program computes them: a float is <<m, e>>, the     *)
(* number m * 2^e with 2^23 <= |m| < 2^24, or <<0, 0>>, and every          *)
(* operation rounds its exact result to the nearest such number, ties to   *)
(* the even m.  Infinities, NaN and subnormal numbers are outside the      *)
(* model (a result between 2^-126 and 2^128 in magnitude is assumed).      *)

\* The float of sign s nearest to (n + f) * 2^e, for an integer n >= 0 and
\* a fraction 0 <= f < 1 that is nonzero iff sticky; sticky only with
\* n >= 2^24.
RECURSIVE F32Norm(_, _, _, _)
F32Norm(s, n, e, sticky) ==
    TheOne({IF x = 0 THEN <<0, 0>>
            ELSE IF x >= 2 ^ 25
            THEN F32Norm(s, x \div 2, y + 1, z \/ x % 2 = 1)
            ELSE IF x >= 2 ^ 24
            THEN LET m  == x \div 2
                     up == x % 2 = 1 /\ (z \/ m % 2 = 1)
                 IN  IF up /\ m + 1 = 2 ^ 24 THEN <<s * (2 ^ 23), y + 2>>
                     ELSE <<s * (IF up THEN m + 1 ELSE m), y + 1>>
            ELSE IF x >= 2 ^ 23 THEN <<s * x, y>>
            ELSE IF x < 2 ^ 11 THEN F32Norm(s, x * (2 ^ 12), y - 12, FALSE)
            ELSE F32Norm(s, x * 2, y - 1, FALSE) :
            x \in {n}, y \in {e}, z \in {sticky}})

\* static_cast<float>(k) of an integer k.
F32FromInt(k) == F32Norm(Sgn(k), Abs(k), 0, FALSE)

\* The float of sign s nearest to (q + r / 625) * 2^e, for 0 <= r < 625:
\* binary places of the quotient are taken, twelve at a time or one, until
\* it has 25 bits or the remainder is gone.
RECURSIVE F32Quot(_, _, _, _)
F32Quot(s, q, r, e) ==
    TheOne({IF y = 0 THEN F32Norm(s, x, e, FALSE)
            ELSE IF x >= 2 ^ 24 THEN F32Norm(s, x, e, TRUE)
            ELSE IF x < 2 ^ 11
            THEN F32Quot(s, x * (2 ^ 12) + (y * (2 ^ 12)) \div 625,
                         (y * (2 ^ 12)) % 625, e - 12)
            ELSE F32Quot(s, 2 * x + (2 * y) \div 625, (2 * y) % 625, e - 1) :
            x \in {q}, y \in {r}})

\* The float literal of the decimal k / U: the float nearest to it
\* (k / 10000 = (k / 625) * 2^-4).
F32(k) == F32Quot(Sgn(k), Abs(k) \div 625, Abs(k) % 625, -4)

\* a * b.  The 48-bit product of the two m is formed in halves of 12 bits.
F32Mul(a, b) ==
    TheOne({IF x[1] = 0 \/ y[1] = 0 THEN <<0, 0>>
            ELSE LET ma  == Abs(x[1])
                     mb  == Abs(y[1])
                     a1  == ma \div 4096
                     a0  == ma % 4096
                     b1  == mb \div 4096
                     b0  == mb % 4096
                     mid == a1 * b0 + a0 * b1
                     low == a0 * b0 + (mid % 4096) * 4096
                     hi  == a1 * b1 + mid \div 4096 + low \div (2 ^ 24)
                     lo  == low % (2 ^ 24)
                 IN  F32Norm(Sgn(x[1]) * Sgn(y[1]),
                             hi * 4 + lo \div (2 ^ 22),
                             x[2] + y[2] + 22, lo % (2 ^ 22) # 0) :
            x \in {a}, y \in {b}})

\* n shifted right by d places; the lowest bit of the result is set when a
\* one was shifted out.
ShiftSticky(n, d) ==
    IF d = 0 THEN n
    ELSE IF d >= 30 THEN (IF n = 0 THEN 0 ELSE 1)
    ELSE LET q == n \div (2 ^ d)
         IN  IF n % (2 ^ d) # 0 /\ q % 2 = 0 THEN q + 1 ELSE q

\* a + b.  The m of the operand with the smaller exponent is shifted to the
\* exponent of the other, with three places kept below it.
F32Add(a, b) ==
    TheOne({IF x[1] = 0 THEN y
            ELSE IF y[1] = 0 THEN x
            ELSE LET big   == IF x[2] >= y[2] THEN x ELSE y
                     small == IF x[2] >= y[2] THEN y ELSE x
                     sum   == big[1] * 8
                              + Sgn(small[1])
                                * ShiftSticky(Abs(small[1]) * 8,
                                              big[2] - small[2])
                 IN  F32Norm(Sgn(sum), Abs(sum), big[2] - 3, FALSE) :
            x \in {a}, y \in {b}})

\* a - b.
F32Sub(a, b) == TheOne({F32Add(a, <<-y[1], y[2]>>) : y \in {b}})

\* The literals 0.01f, 0.5f, 5.0f and 7.0f of the renderer.
F32Hundredth == F32(U \div 100)
F32Half == F32(U \div 2)
F32Five == F32FromInt(5)
F32Seven == F32FromInt(7)

----------------------------------------------------------------------------
(* input                                                                   *)

Keys == {"LEFT_ARROW", "UP_ARROW", "RIGHT_ARROW", "DOWN_ARROW",
         "LEFT", "UP", "RIGHT", "DOWN", "ENTER", "F11", "PAUSE", "ESC"}

ButtonsInit == [k \in Keys |-> [is_down |-> FALSE, changed |-> FALSE]]

is_changed(btn, k) == btn[k].changed
is_down(btn, k) == btn[k].is_down
is_pressed(btn, k) == is_down(btn, k) /\ is_changed(btn, k)
is_released(btn, k) == ~is_down(btn, k) /\ is_changed(btn, k)

----------------------------------------------------------------------------
(* objects::AIDifficulty, PlayerController, Player                         *)

Easy == 0
Medium == 1
Hard == 2
VeryHard == 3
Unbeatable == 4

TOP == 50 * U
BOTTOM == -50 * U
HIGH_VY == 100 * U

PlayerHeight == 12 * U
PlayerWidth == 2 * U

\* A Player before Player::init has run (its fields are not read then).
PlayerBlank(arrows) ==
    [x |-> 0, y |-> 0, dp |-> 0, ddp_speed |-> 0, damping |-> 0,
     ai_mode |-> TRUE, arrow_controls |-> arrows, score |-> 0,
     width |-> 0, height |-> 0]

\* Player::init (which calls PlayerController::init); speed and damping are
\* the configuration's paddle_speed and paddle_damping.  The score is kept.
PlayerInit(p, x, ai, speed, damping) ==
    [p EXCEPT !.x = x, !.y = 0, !.dp = 0,
              !.damping = damping * 9,
              !.ddp_speed = speed * 1700,
              !.ai_mode = ai,
              !.width = PlayerWidth, !.height = PlayerHeight]

\* Player::reset
PlayerReset(p) == [p EXCEPT !.y = 0, !.dp = 0]

\* Player::handle_input: the acceleration requested by the held keys.
handle_input(p, btn) ==
    LET up   == is_down(btn, IF p.arrow_controls THEN "UP_ARROW" ELSE "UP")
        down == is_down(btn, IF p.arrow_controls THEN "DOWN_ARROW" ELSE "DOWN")
    IN  (IF up THEN -p.ddp_speed ELSE 0) + (IF down THEN p.ddp_speed ELSE 0)

\* Mutant of the fold: a negative fmod result is not shifted up.
FoldNoShift(proj_y) ==
    LET span    == TOP - BOTTOM
        shifted == proj_y - BOTTOM
        cycle   == Fmod(shifted, 2 * span)
    IN  IF cycle <= span THEN BOTTOM + cycle ELSE TOP - (cycle - span)

\* Mutant of the fold: the second half of the cycle rises from BOTTOM
\* instead of falling from TOP.
FoldSawtooth(proj_y) ==
    LET span    == TOP - BOTTOM
        shifted == proj_y - BOTTOM
        c0      == Fmod(shifted, 2 * span)
        cycle   == IF c0 < 0 THEN c0 + 2 * span ELSE c0
    IN  IF cycle <= span THEN BOTTOM + cycle ELSE BOTTOM + (cycle - span)

\* The triangle-wave fold of Player::predict_ball: a projected y reflected
\* off the walls at TOP and BOTTOM.
Fold(proj_y) ==
    LET span    == TOP - BOTTOM
        shifted == proj_y - BOTTOM
        c0      == Fmod(shifted, 2 * span)
        cycle   == IF c0 < 0 THEN c0 + 2 * span ELSE c0
    IN  IF cycle <= span THEN BOTTOM + cycle ELSE TOP - (cycle - span)

\* Mutant of Player::predict_ball: level 3 is as inaccurate as level 2.
predict_ball_noisy(ball_vel, ball_pos, paddle_x, target_y, level, rnd) ==
    LET will_predict ==
            /\ Abs(ball_vel.y) > HIGH_VY
            /\ Abs(ball_vel.x) > 1
            /\ \/ (paddle_x >= 0 /\ ball_vel.x > 0)
               \/ (paddle_x < 0 /\ ball_vel.x < 0)
        dx == paddle_x - ball_pos.x
    IN  IF ~will_predict THEN target_y
        ELSE IF ~(dx # 0 /\ Sgn(dx) = Sgn(ball_vel.x)) THEN ball_pos.y
        ELSE LET proj_y  == ball_pos.y + MulDiv(ball_vel.y, dx, ball_vel.x)
                 final_y == Fold(proj_y)
                 inacurracy == rnd.frac * 12 - 10 * U
                 f == IF rnd.mistake THEN TOP ELSE final_y + inacurracy
             IN  f + inacurracy

\* Player::predict_ball: the new target_y.  rnd.frac is rand() / RAND_MAX
\* (0 .. U) and rnd.mistake is the outcome of (rand() % n) == 0.
predict_ball(ball_vel, ball_pos, paddle_x, target_y, level, rnd) ==
    LET will_predict ==
            /\ Abs(ball_vel.y) > HIGH_VY
            /\ Abs(ball_vel.x) > 1
            /\ \/ (paddle_x >= 0 /\ ball_vel.x > 0)
               \/ (paddle_x < 0 /\ ball_vel.x < 0)
        dx == paddle_x - ball_pos.x
    IN  IF ~will_predict THEN target_y
        ELSE IF ~(dx # 0 /\ Sgn(dx) = Sgn(ball_vel.x)) THEN ball_pos.y
        ELSE LET proj_y  == ball_pos.y + MulDiv(ball_vel.y, dx, ball_vel.x)
                 final_y == Fold(proj_y)
             IN  CASE level = 1 ->
                        LET inacurracy == rnd.frac * 12 - 16 * U
                            f == IF rnd.mistake THEN TOP
                                 ELSE final_y + inacurracy
                        IN  f + inacurracy
                   [] level = 2 ->
                        LET inacurracy == rnd.frac * 12 - 10 * U
                            f == IF rnd.mistake THEN TOP
                                 ELSE final_y + inacurracy
                        IN  f + inacurracy
                   [] level = 3 -> final_y + 10 * U
                   [] OTHER -> target_y

\* Whether Player::update of p reaches the two calls of rand() in
\* predict_ball: an AI paddle at Hard or VeryHard, the ball in its half,
\* the predictor triggered and t > 0.
CallsRand(p, ball_pos, ball_vel, difficulty) ==
    /\ p.ai_mode
    /\ difficulty \in {Hard, VeryHard}
    /\ \/ (p.x > 0 /\ ball_pos.x > 0)
       \/ (p.x < 0 /\ ball_pos.x < 0)
    /\ Abs(ball_vel.y) > HIGH_VY
    /\ Abs(ball_vel.x) > 1
    /\ \/ (p.x >= 0 /\ ball_vel.x > 0)
       \/ (p.x < 0 /\ ball_vel.x < 0)
    /\ p.x - ball_pos.x # 0
    /\ Sgn(p.x - ball_pos.x) = Sgn(ball_vel.x)

\* Player::smash_ball: the acceleration it adds.
smash_ball(dist_x, target_y, paddle_y, ball_vel, s) ==
    IF dist_x <= 10 * U
    THEN LET diff == target_y - paddle_y
         IN  IF Abs(diff) < 1 * U
             THEN (IF ball_vel.y > 0 THEN s ELSE -s)
             ELSE (IF diff > 0 THEN s ELSE -s)
    ELSE 0

\* Player::follow_ball: the acceleration it adds.
follow_ball(target_y, paddle_y, s) ==
    LET diff == target_y - paddle_y
    IN  IF diff > 5 * U THEN s
        ELSE IF diff < -5 * U THEN -s
        ELSE 0

\* Mutant of Player::run_ai_mode: the half test lets a ball on the centre
\* line (x = 0) engage the paddle; the tiers are reduced to follow_ball.
run_ai_mode_centre(self, ball_pos, ball_vel, difficulty, rnd) ==
    IF ~(\/ (self.x > 0 /\ ball_pos.x >= 0)
         \/ (self.x < 0 /\ ball_pos.x <= 0))
    THEN 0
    ELSE follow_ball(ball_pos.y, self.y, self.ddp_speed)

\* Player::run_ai_mode: the acceleration requested in this tick.
run_ai_mode(self, ball_pos, ball_vel, difficulty, rnd) ==
    IF ~(\/ (self.x > 0 /\ ball_pos.x > 0)
         \/ (self.x < 0 /\ ball_pos.x < 0))
    THEN 0
    ELSE LET paddle_x == self.x
             paddle_y == self.y
             dist_x   == Abs(paddle_x - ball_pos.x)
             s        == self.ddp_speed
             level    == difficulty - 1
             target_y == IF difficulty \in {Hard, VeryHard, Unbeatable}
                         THEN predict_ball(ball_vel, ball_pos, paddle_x,
                                           ball_pos.y, level, rnd)
                         ELSE ball_pos.y
         IN  CASE difficulty = Easy ->
                    follow_ball(target_y, paddle_y, s)
               [] difficulty \in {Medium, Hard, VeryHard, Unbeatable} ->
                    smash_ball(dist_x, target_y, paddle_y, ball_vel, s)
                    + follow_ball(target_y, paddle_y, s)
               [] OTHER -> 0

\* PlayerController::update: drag, then position from the old velocity,
\* then velocity.
controller_update(p, dt, ddp0) ==
    LET ddp == ddp0 - MulDiv(p.dp, p.damping, U)
        y2  == p.y + MulDt(p.dp, dt) + TDiv(MulDt(MulDt(ddp, dt), dt), 2)
        dp2 == p.dp + MulDt(ddp, dt)
    IN  [p EXCEPT !.y = y2, !.dp = dp2]

\* Mutant of Player::add_collision: the bottom wall is not checked.
PlayerAddCollisionTopOnly(p) ==
    IF p.y + p.height > 50 * U
    THEN [p EXCEPT !.y = 50 * U - p.height, !.dp = TDiv(-p.dp, 2)]
    ELSE p

\* Player::add_collision: the paddle against the top and bottom walls.
PlayerAddCollision(p) ==
    LET a == IF p.y + p.height > 50 * U
             THEN [p EXCEPT !.y = 50 * U - p.height, !.dp = TDiv(-p.dp, 2)]
             ELSE p
    IN  IF a.y - a.height < -50 * U
        THEN [a EXCEPT !.y = -50 * U + a.height, !.dp = TDiv(-a.dp, 2)]
        ELSE a

\* Player::update
PlayerUpdate(p, dt, ball_pos, ball_vel, difficulty, btn, rnd) ==
    LET ddp == IF p.ai_mode
               THEN run_ai_mode(p, ball_pos, ball_vel, difficulty, rnd)
               ELSE handle_input(p, btn)
    IN  PlayerAddCollision(controller_update(p, dt, ddp))

----------------------------------------------------------------------------
(* objects::BallController, Ball                                           *)

BallSize == (12 * U) \div 10
GOAL == 80 * U

BallBlank == [x |-> 0, y |-> 0, vx |-> 0, vy |-> 0,
              scored |-> FALSE, winner |-> 0]

\* Ball::init (BallController::init, then vel.x = speed * 100).
BallInit(speed) ==
    [x |-> 0, y |-> 0, vx |-> speed * 100, vy |-> 0,
     scored |-> FALSE, winner |-> 0]

\* Ball::reset
BallReset(b) ==
    [b EXCEPT !.x = 0, !.y = 0, !.vx = -b.vx, !.vy = 0,
              !.scored = FALSE, !.winner = 0]

\* Mutant of the wall part of BallController::add_collision: vel.y is
\* negated but pos.y is left beyond the wall.
BallWallsNoClamp(b) ==
    LET a == IF b.y + BallSize > 50 * U THEN [b EXCEPT !.vy = -b.vy] ELSE b
    IN  IF a.y - BallSize < -50 * U THEN [a EXCEPT !.vy = -a.vy] ELSE a

\* The wall part of BallController::add_collision.
BallWalls(b) ==
    LET a == IF b.y + BallSize > 50 * U
             THEN [b EXCEPT !.y = 50 * U - BallSize, !.vy = -b.vy]
             ELSE b
    IN  IF a.y - BallSize < -50 * U
        THEN [a EXCEPT !.y = -50 * U + BallSize, !.vy = -a.vy]
        ELSE a

\* Mutant of BallController::add_collision: a goal at the right edge is
\* credited to player 2.
BallAddCollisionWrongScorer(st, player, who) ==
    LET w  == BallWalls(st.b)
        nw == st.walls + (IF w # st.b THEN 1 ELSE 0)
    IN  IF w.x + BallSize > GOAL
        THEN [st EXCEPT !.b = [w EXCEPT !.scored = TRUE, !.winner = 1,
                                        !.x = GOAL + BallSize],
                        !.inc2 = st.inc2 + 1, !.walls = nw,
                        !.cues = Append(@, "shine")]
        ELSE IF w.x - BallSize < -GOAL
        THEN [st EXCEPT !.b = [w EXCEPT !.scored = TRUE, !.winner = 2,
                                        !.x = -GOAL - BallSize],
                        !.inc2 = st.inc2 + 1, !.walls = nw,
                        !.cues = Append(@, "shine")]
        ELSE LET px        == player.x
                 py        == player.y
                 width     == player.width
                 height    == player.height
                 dp        == player.dp
                 overlap_x == Abs(w.x - px) <= width + BallSize
                 overlap_y == Abs(w.y - py) <= height + BallSize
             IN  IF overlap_x /\ overlap_y
                 THEN LET hit_influence    == MulDiv(w.y - py, 38 * U, height)
                          paddle_influence == TDiv(dp, 5)
                      IN  [st EXCEPT
                             !.b = [w EXCEPT
                                      !.x  = IF w.vx < 0
                                             THEN px + width + BallSize
                                             ELSE px - width - BallSize,
                                      !.vx = -w.vx + 1,
                                      !.vy = w.vy + hit_influence
                                             + paddle_influence + 1],
                             !.hits = st.hits \cup {who},
                             !.pre_vx = w.vx,
                             !.walls = nw,
                             !.cues = Append(@, "paddle_hit")]
                 ELSE [st EXCEPT !.b = w, !.walls = nw]

\* BallController::add_collision(player).  st.b is the ball, st.inc1 and
\* st.inc2 count the increment_score calls made so far in this update,
\* st.hits the paddles hit, st.walls the wall bounces and st.cues the audio
\* cues requested (shine.mp3 for a goal, paddle_hit.mp3 for a paddle hit).
BallAddCollision(st, player, who) ==
    LET w  == BallWalls(st.b)
        nw == st.walls + (IF w # st.b THEN 1 ELSE 0)
    IN  IF w.x + BallSize > GOAL
        THEN [st EXCEPT !.b = [w EXCEPT !.scored = TRUE, !.winner = 1,
                                        !.x = GOAL + BallSize],
                        !.inc1 = st.inc1 + 1, !.walls = nw,
                        !.cues = Append(@, "shine")]
        ELSE IF w.x - BallSize < -GOAL
        THEN [st EXCEPT !.b = [w EXCEPT !.scored = TRUE, !.winner = 2,
                                        !.x = -GOAL - BallSize],
                        !.inc2 = st.inc2 + 1, !.walls = nw,
                        !.cues = Append(@, "shine")]
        ELSE LET px        == player.x
                 py        == player.y
                 width     == player.width
                 height    == player.height
                 dp        == player.dp
                 overlap_x == Abs(w.x - px) <= width + BallSize
                 overlap_y == Abs(w.y - py) <= height + BallSize
             IN  IF overlap_x /\ overlap_y
                 THEN LET hit_influence    == MulDiv(w.y - py, 38 * U, height)
                          paddle_influence == TDiv(dp, 5)
                      IN  [st EXCEPT
                             !.b = [w EXCEPT
                                      !.x  = IF w.vx < 0
                                             THEN px + width + BallSize
                                             ELSE px - width - BallSize,
                                      !.vx = -w.vx + 1,
                                      !.vy = w.vy + hit_influence
                                             + paddle_influence + 1],
                             !.hits = st.hits \cup {who},
                             !.pre_vx = w.vx,
                             !.walls = nw,
                             !.cues = Append(@, "paddle_hit")]
                 ELSE [st EXCEPT !.b = w, !.walls = nw]

\* BallController::update_physics
update_physics(b, dt) ==
    [b EXCEPT !.x = b.x + MulDt(b.vx, dt), !.y = b.y + MulDt(b.vy, dt)]

\* Mutant of BallController::update: the second add_collision runs even
\* when the first one has scored.
BallUpdateNoEarlyReturn(b, q1, q2, dt) ==
    LET st0 == [b |-> b, inc1 |-> 0, inc2 |-> 0, hits |-> {},
                pre_vx |-> 0, walls |-> 0, moved |-> FALSE, cues |-> <<>>]
    IN  IF b.scored THEN st0
        ELSE LET m   == [st0 EXCEPT !.b = update_physics(b, dt),
                                    !.moved = TRUE]
             IN  BallAddCollision(BallAddCollision(m, q1, 1), q2, 2)

\* Mutant of BallController::update: a scored ball is still updated.
BallUpdateNoFreeze(b, q1, q2, dt) ==
    LET st0 == [b |-> b, inc1 |-> 0, inc2 |-> 0, hits |-> {},
                pre_vx |-> 0, walls |-> 0, moved |-> FALSE, cues |-> <<>>]
        m   == [st0 EXCEPT !.b = update_physics(b, dt), !.moved = TRUE]
        st1 == BallAddCollision(m, q1, 1)
    IN  IF st1.b.scored THEN st1
        ELSE BallAddCollision(st1, q2, 2)

\* Mutant of BallController::update: both add_collision calls are made with
\* player 1's paddle.
BallUpdateOnePaddleTwice(b, q1, q2, dt) ==
    LET st0 == [b |-> b, inc1 |-> 0, inc2 |-> 0, hits |-> {},
                pre_vx |-> 0, walls |-> 0, moved |-> FALSE, cues |-> <<>>]
    IN  IF b.scored THEN st0
        ELSE LET m   == [st0 EXCEPT !.b = update_physics(b, dt),
                                    !.moved = TRUE]
                 st1 == BallAddCollision(m, q1, 1)
             IN  IF st1.b.scored THEN st1
                 ELSE BallAddCollision(st1, q1, 2)

\* BallController::update.  player1 and player2 are set by Ball::init
\* before the first update and never cleared.
BallUpdate(b, q1, q2, dt) ==
    LET st0 == [b |-> b, inc1 |-> 0, inc2 |-> 0, hits |-> {},
                pre_vx |-> 0, walls |-> 0, moved |-> FALSE, cues |-> <<>>]
    IN  IF b.scored THEN st0
        ELSE LET m   == [st0 EXCEPT !.b = update_physics(b, dt),
                                    !.moved = TRUE]
                 st1 == BallAddCollision(m, q1, 1)
             IN  IF st1.b.scored THEN st1
                 ELSE BallAddCollision(st1, q2, 2)

----------------------------------------------------------------------------
(* objects::ParticleBurst, objects::FlashEffect                            *)

BurstCount == 80
BurstLifetime == CS
FadeSpeed == 3

\* A ParticleBurst after construction.  A particle is modelled by its
\* remaining life, in 1/CS seconds.
BurstBlank == [particles |-> <<>>, active |-> FALSE, x |-> 0, y |-> 0]

\* The life given to a particle by ParticleBurst::start,
\* lifetime * (0.5 + (rand() / RAND_MAX) * 0.5), for rand() / RAND_MAX = r / 50
\* (r in 0..50): these are the draws whose life is a whole number of 1/CS
\* seconds, 0.50 + r * 0.01.
ParticleLife(r) == (BurstLifetime * (50 + r)) \div 100

\* ParticleBurst::start(x, y); draw[i] is the rand() / RAND_MAX (in
\* fiftieths) that decides the life of the i-th particle.  The renderer
\* pointer is set by the Window constructors, so start never returns early.
BurstStart(b, x, y, draw) ==
    [b EXCEPT !.x = x, !.y = y, !.active = TRUE,
              !.particles = [i \in 1..BurstCount |-> ParticleLife(draw[i])]]

\* Mutant of ParticleBurst::update: a particle whose life is exactly 0 stays.
BurstUpdateStrict(b, dt) ==
    IF ~b.active THEN b
    ELSE LET aged == [i \in 1..Len(b.particles) |-> b.particles[i] - dt]
             Alive(l) == l >= 0
             kept == SelectSeq(aged, Alive)
         IN  [b EXCEPT !.particles = kept,
                       !.active = IF kept = <<>> THEN FALSE ELSE b.active]

\* ParticleBurst::update(dt)
BurstUpdate(b, dt) ==
    IF ~b.active THEN b
    ELSE LET aged == [i \in 1..Len(b.particles) |-> b.particles[i] - dt]
             Alive(l) == ~(l <= 0)
             kept == SelectSeq(aged, Alive)
         IN  [b EXCEPT !.particles = kept,
                       !.active = IF kept = <<>> THEN FALSE ELSE b.active]

\* ParticleBurst::finished
BurstFinished(b) == ~b.active

\* A FlashEffect after construction; alpha 1.0 is U.
FlashBlank == [alpha |-> 0, active |-> FALSE]

\* FlashEffect::start
FlashStart(f) == [f EXCEPT !.alpha = U, !.active = TRUE]

\* Mutant of FlashEffect::update: the flash fades ten times slower.
FlashUpdateSlowFade(f, dt) ==
    IF ~f.active THEN f
    ELSE LET a == f.alpha - MulDt((FadeSpeed * U) \div 10, dt)
         IN  IF a <= 0 THEN [f EXCEPT !.alpha = 0, !.active = FALSE]
             ELSE [f EXCEPT !.alpha = a]

\* FlashEffect::update(dt)
FlashUpdate(f, dt) ==
    IF ~f.active THEN f
    ELSE LET a == f.alpha - MulDt(FadeSpeed * U, dt)
         IN  IF a <= 0 THEN [f EXCEPT !.alpha = 0, !.active = FALSE]
             ELSE [f EXCEPT !.alpha = a]

\* FlashEffect::finished
FlashFinished(f) == ~f.active

----------------------------------------------------------------------------
(* Observation of the last step                                            *)

ObsNone == [op |-> "none"]

IoNone == [op |-> "none"]

\* The outcomes of the two calls of rand() in Player::predict_ball: the
\* first gives rand() / RAND_MAX, here in quarters from 0 to 1, the second
\* decides (rand() % n) == 0 on its own.
RndChoices == {[frac |-> f, mistake |-> m] :
                   f \in {0, U \div 4, U \div 2, (3 * U) \div 4, U},
                   m \in BOOLEAN}

\* The draw handed to a Player::update that does not call rand().
RndUnused == [frac |-> 0, mistake |-> FALSE]

----------------------------------------------------------------------------
(* SpecPlayer: Player::update on its own.  Init draws the paddles, the     *)
(* ball they look at and the difficulty; each step is one Player::update   *)
(* of one paddle.                                                          *)

MaxPlayerSteps == 2

PadYChoices == {-38 * U, -5 * U, 38 * U}
PadDpChoices == {0, 250 * U, -400 * U}
PadDtChoices == {0, 10, 100}
SpeedChoices == {U}
DampingChoices == {U}
\* The five tiers and one index outside them.  AIDifficulty is an unscoped
\* enumeration without a fixed underlying type, so the values 5..7 are in
\* its range and the cast of Config::load_from_file is defined for them; a
\* cast of any other integer is undefined and is not drawn.
DifficultyChoices == {Easy, Medium, Hard, VeryHard, Unbeatable, 7}

\* Ball positions and velocities the AI is asked about: both halves, the
\* centre line x = 0, near and far from a paddle, slow and fast vertically;
\* and a fast ball flying at player 2, before and behind its paddle.
AiBallChoices ==
    {[x |-> bx, y |-> by, vx |-> v[1], vy |-> v[2],
      scored |-> FALSE, winner |-> 0] :
        bx \in {-65 * U, 0, 5 * U, 64 * U},
        by \in {-30 * U, 40 * U},
        v  \in {<<140 * U, 0>>, <<-140 * U, 150 * U>>}}
    \cup
    {[x |-> bx, y |-> by, vx |-> 140 * U, vy |-> -150 * U,
      scored |-> FALSE, winner |-> 0] :
        bx \in {64 * U, 75 * U},
        by \in {-30 * U, 40 * U}}

\* A paddle of a match (Player::init has run) at height y with velocity dp.
PaddleAt(x, arrows, ai, y, dp, sp, da) ==
    [PlayerInit(PlayerBlank(arrows), x, ai, sp, da) EXCEPT !.y = y, !.dp = dp]

CfgDefault ==
    [paddle_speed |-> U, paddle_damping |-> U, ball_speed |-> (14 * U) \div 10,
     game_duration_secs |-> 30, ai_difficulty |-> Medium,
     music_enabled |-> FALSE, music_volume |-> U, sfx_volume |-> U]

\* Which of the paddle keys are held (Z / S for player 1, the arrows for
\* player 2; one pair of booleans drives both).
ButtonChoices ==
    {[ButtonsInit EXCEPT !["UP"].is_down = u, !["DOWN"].is_down = d,
                         !["UP_ARROW"].is_down = u, !["DOWN_ARROW"].is_down = d]
        : u \in BOOLEAN, d \in BOOLEAN}

InitPlayer ==
    /\ \E ai \in BOOLEAN, y \in PadYChoices, dp \in PadDpChoices,
          sp \in SpeedChoices, da \in DampingChoices :
         /\ p1 = PaddleAt(-70 * U, FALSE, ai, y, dp, sp, da)
         /\ p2 = PaddleAt(70 * U, TRUE, ai, -y, -dp, sp, da)
         /\ IF ai
            THEN /\ ball \in AiBallChoices
                 /\ \E d \in DifficultyChoices :
                      cfg = [CfgDefault EXCEPT !.ai_difficulty = d]
            ELSE /\ ball = BallBlank
                 /\ cfg = CfgDefault
    /\ burst = BurstBlank
    /\ flash = FlashBlank
    /\ win = [menu_state |-> "MENU_PLAYING"]
    /\ buttons = ButtonsInit
    /\ io = IoNone
    /\ obs = ObsNone
    /\ ticks = 0

\* One Player::update of paddle `who`, as called from the Playing branch of
\* the main loop (difficulty = game_config.ai_difficulty).
PlayerStep(who) ==
    /\ ticks < MaxPlayerSteps
    /\ \E dt \in PadDtChoices, btn \in ButtonChoices, rnd \in RndChoices :
         LET p   == IF who = 1 THEN p1 ELSE p2
             bp  == [x |-> ball.x, y |-> ball.y]
             bv  == [x |-> ball.vx, y |-> ball.vy]
             ddp == IF p.ai_mode
                    THEN run_ai_mode(p, bp, bv, cfg.ai_difficulty, rnd)
                    ELSE handle_input(p, btn)
             q   == PlayerUpdate(p, dt, bp, bv, cfg.ai_difficulty, btn, rnd)
         IN  /\ (p.ai_mode => btn = ButtonsInit)
             /\ (~CallsRand(p, bp, bv, cfg.ai_difficulty)
                    => rnd = RndUnused)
             /\ p1' = (IF who = 1 THEN q ELSE p1)
             /\ p2' = (IF who = 2 THEN q ELSE p2)
             /\ buttons' = btn
             /\ obs' = [op |-> "player_update", who |-> who, dt |-> dt,
                        ddp |-> ddp, pre |-> p,
                        mid |-> controller_update(p, dt, ddp)]
    /\ ticks' = ticks + 1
    /\ UNCHANGED <<ball, burst, flash, win, cfg, io>>

Player1Step == PlayerStep(1)
Player2Step == PlayerStep(2)

NextPlayer == Player1Step \/ Player2Step

SpecPlayer == InitPlayer /\ [][NextPlayer]_vars

----------------------------------------------------------------------------
(* SpecBall: BallController::update and Ball::reset on their own.  Init    *)
(* draws the ball and the two paddles; the paddles do not move.            *)

MaxBallSteps == 3

BallDtChoices == {0, 5, 40, 100}

\* Ball states of a match.  vel.x is +-100 * ball_speed + k * 0.0001 for an
\* integer k: a hit on the right paddle (ball moving right) lowers the speed
\* by 0.0001, a hit on the left paddle raises it, and Ball::reset keeps the
\* speed and turns the ball round.  The last two states are those of a ball
\* whose speed has been worn down to 0.0001 in this way and which is within
\* reach of the right paddle (the paddle may have moved in after the ball
\* passed its face).  A ball this slow that moves away from a paddle's face
\* covers less than 0.0001 in a frame, which the fixed point does not
\* resolve; the states chosen move towards the paddle or rest.
BallChoices ==
    {[x |-> 0, y |-> 0, vx |-> 140 * U, vy |-> 0],
     [x |-> (795 * U) \div 10, y |-> 0, vx |-> 50 * U, vy |-> 0],
     [x |-> -79 * U, y |-> 10 * U, vx |-> -140 * U + 1, vy |-> 20 * U],
     [x |-> 65 * U, y |-> 5 * U, vx |-> 140 * U, vy |-> 30 * U],
     [x |-> -65 * U, y |-> -5 * U, vx |-> -140 * U + 1, vy |-> -200 * U],
     [x |-> 10 * U, y |-> 48 * U, vx |-> 140 * U, vy |-> 250 * U],
     [x |-> -30 * U, y |-> -48 * U, vx |-> -50 * U, vy |-> -250 * U],
     [x |-> 67 * U, y |-> 0, vx |-> 1, vy |-> 0],
     [x |-> 67 * U, y |-> 3 * U, vx |-> 1, vy |-> 0]}

BallPaddleYChoices == {0, 30 * U}
BallPaddleDpChoices == {0, 100 * U}

InitBall ==
    /\ \E b \in BallChoices :
         ball = [x |-> b.x, y |-> b.y, vx |-> b.vx, vy |-> b.vy,
                 scored |-> FALSE, winner |-> 0]
    /\ \E y \in BallPaddleYChoices, dp \in BallPaddleDpChoices :
         /\ p1 = PaddleAt(-70 * U, FALSE, FALSE, y, dp, U, U)
         /\ p2 = PaddleAt(70 * U, TRUE, TRUE, -y, dp, U, U)
    /\ cfg = CfgDefault
    /\ burst = BurstBlank
    /\ flash = FlashBlank
    /\ win = [menu_state |-> "MENU_PLAYING"]
    /\ buttons = ButtonsInit
    /\ io = IoNone
    /\ obs = ObsNone
    /\ ticks = 0

\* One BallController::update (the state change of Ball::update).
BallStep ==
    /\ ticks < MaxBallSteps
    /\ \E dt \in BallDtChoices :
         LET r == BallUpdate(ball, p1, p2, dt)
         IN  /\ ball' = r.b
             /\ p1' = [p1 EXCEPT !.score = @ + r.inc1]
             /\ p2' = [p2 EXCEPT !.score = @ + r.inc2]
             /\ obs' = [op |-> "ball_update", dt |-> dt, pre |-> ball,
                        pre_s1 |-> p1.score, pre_s2 |-> p2.score,
                        mid |-> update_physics(ball, dt),
                        moved |-> r.moved, inc1 |-> r.inc1, inc2 |-> r.inc2,
                        hits |-> r.hits, pre_vx |-> r.pre_vx,
                        walls |-> r.walls, cues |-> r.cues]
    /\ ticks' = ticks + 1
    /\ UNCHANGED <<burst, flash, win, buttons, cfg, io>>

\* One Ball::reset (end of a celebration, or Restart / Main Menu in the
\* pause overlay).
BallResetStep ==
    /\ ticks < MaxBallSteps
    /\ ball' = BallReset(ball)
    /\ obs' = [op |-> "ball_reset", pre |-> ball]
    /\ ticks' = ticks + 1
    /\ UNCHANGED <<p1, p2, burst, flash, win, buttons, cfg, io>>

NextBall == BallStep \/ BallResetStep

SpecBall == InitBall /\ [][NextBall]_vars

----------------------------------------------------------------------------
(* SpecFold: the trajectory fold of Player::predict_ball as a function of  *)
(* the projected y.                                                        *)

FoldRange == 95

\* Projected y values: every multiple of 5 up to +-5 * FoldRange, and the
\* same values a quarter of a unit above.
FoldInputs ==
    {5 * k * U + f : k \in -FoldRange .. FoldRange, f \in {0, U \div 4}}

InitFold ==
    /\ p1 = PlayerBlank(FALSE)
    /\ p2 = PlayerBlank(TRUE)
    /\ ball = BallBlank
    /\ cfg = CfgDefault
    /\ burst = BurstBlank
    /\ flash = FlashBlank
    /\ win = [menu_state |-> "MENU_MAIN"]
    /\ buttons = ButtonsInit
    /\ io = IoNone
    /\ obs = ObsNone
    /\ ticks = 0

\* One evaluation of the fold, and of the fold one period (2 * span) on.
FoldStep ==
    /\ \E y \in FoldInputs :
         io' = [op |-> "fold", y |-> y, out |-> Fold(y),
                out_next |-> Fold(y + 2 * (TOP - BOTTOM))]
    /\ UNCHANGED <<p1, p2, ball, burst, flash, win, buttons, cfg, obs, ticks>>

NextFold == FoldStep

SpecFold == InitFold /\ [][NextFold]_vars

----------------------------------------------------------------------------
(* SpecBurst: ParticleBurst::start and ParticleBurst::update on their own. *)
(* obs carries the lives drawn by the last start and the dt accumulated by *)
(* the update calls made since.                                            *)

MaxBurstSteps == 5

\* Frame times whose sums float32 holds exactly (0.25, 0.5, 1.0), so that
\* "life <= 0" after several updates is decided as in the program.
BurstDtChoices == {0, 25, 50, 100}
BurstPosChoices == {[x |-> (812 * U) \div 10, y |-> 0],
                    [x |-> -(812 * U) \div 10, y |-> 30 * U]}

\* Draws of rand() / RAND_MAX (in fiftieths) for the lives of the
\* particles of one burst: all shortest, all longest, evenly spread, and
\* one long-lived particle among short-lived ones.
DrawShortest == [i \in 1..BurstCount |-> 0]
DrawLongest == [i \in 1..BurstCount |-> 50]
DrawSpread == [i \in 1..BurstCount |-> ((i - 1) * 50) \div (BurstCount - 1)]
DrawOneLong == [i \in 1..BurstCount |-> IF i = 1 THEN 50 ELSE 0]

LifeDraws == {DrawShortest, DrawLongest, DrawSpread, DrawOneLong}

InitBurst ==
    /\ p1 = PlayerBlank(FALSE)
    /\ p2 = PlayerBlank(TRUE)
    /\ ball = BallBlank
    /\ burst = BurstBlank
    /\ flash = FlashBlank
    /\ win = [menu_state |-> "MENU_PLAYING"]
    /\ buttons = ButtonsInit
    /\ cfg = CfgDefault
    /\ io = IoNone
    /\ obs = [op |-> "none", lives0 |-> <<>>, elapsed |-> 0]
    /\ ticks = 0

\* particle_burst.start(px, py)
BurstStartStep ==
    /\ ticks < MaxBurstSteps
    /\ \E pos \in BurstPosChoices, draw \in LifeDraws :
         LET b == BurstStart(burst, pos.x, pos.y, draw)
         IN  /\ burst' = b
             /\ obs' = [op |-> "burst_start", pre |-> burst, dt |-> 0,
                        lives0 |-> b.particles, elapsed |-> 0]
    /\ ticks' = ticks + 1
    /\ UNCHANGED <<p1, p2, ball, flash, win, buttons, cfg, io>>

\* particle_burst.update(dt)
BurstUpdateStep ==
    /\ ticks < MaxBurstSteps
    /\ \E dt \in BurstDtChoices :
         /\ burst' = BurstUpdate(burst, dt)
         /\ obs' = [op |-> "burst_update", pre |-> burst, dt |-> dt,
                    lives0 |-> obs.lives0, elapsed |-> obs.elapsed + dt]
    /\ ticks' = ticks + 1
    /\ UNCHANGED <<p1, p2, ball, flash, win, buttons, cfg, io>>

NextBurst == BurstStartStep \/ BurstUpdateStep

SpecBurst == InitBurst /\ [][NextBurst]_vars

----------------------------------------------------------------------------
(* Window::mainloop.  One tick is one iteration of the loop: the key       *)
(* events of the frame, then the branch of the current menu state.  The    *)
(* game state is passed through the branches as a record g with the fields *)
(* p1, p2, ball, burst, flash, win, cfg, cues (the audio cues requested so *)
(* far in this tick) and banner (the time-up text drawn in this tick, or   *)
(* "none").  The audio settings (audio::enabled, audio::music_volume,      *)
(* audio::sfx_volume) are kept in cfg.                                     *)

\* The members of Window (and the statics of mainloop) after construction:
\* s_* are the working copies of the Settings screen, which start as the
\* loaded configuration c.
WinInit(c) ==
    [menu_state |-> "MENU_MAIN", menu_index |-> 0, running |-> TRUE,
     game_running |-> FALSE, paused |-> FALSE, confirm_modal |-> FALSE,
     in_countdown |-> FALSE, countdown_time |-> 0, countdown_value |-> 3,
     game_time_elapsed |-> 0, game_timer_active |-> FALSE,
     time_up_state |-> FALSE, time_up_delay |-> 0, tick_timer |-> 0,
     in_celebration |-> FALSE, paused_index |-> 0, settings_index |-> 0,
     s_ball_speed |-> c.ball_speed, s_paddle_speed |-> c.paddle_speed,
     s_paddle_damping |-> c.paddle_damping,
     s_game_duration_secs |-> c.game_duration_secs,
     s_ai_difficulty |-> c.ai_difficulty]

\* input::process_button for one WM_KEYDOWN (down) or WM_KEYUP message.
process_button(btn, k, down) ==
    [btn EXCEPT ![k] = [is_down |-> down, changed |-> TRUE]]

\* Window::WndProc for WM_CLOSE / WM_DESTROY, dispatched by the message
\* pump: the loop ends after the iteration that is under way.
WndProcClose(w) == [w EXCEPT !.running = FALSE]

\* The start of a loop iteration: every changed flag is cleared.
ClearChanged(btn) == [k \in Keys |-> [btn[k] EXCEPT !.changed = FALSE]]

\* The message pump of one iteration: process_button for each key message
\* of the sequence evs, in order.
RECURSIVE PumpMessages(_, _)
PumpMessages(btn, evs) ==
    IF evs = <<>> THEN btn
    ELSE PumpMessages(process_button(btn, Head(evs).key, Head(evs).down),
                      Tail(evs))

\* audio::play_effect(name): the cue is recorded.
Cue(g, name) == [g EXCEPT !.cues = Append(@, name)]

\* utils::round_to(value, 1): to the nearest tenth, halves away from zero.
round_to(v) == Sgn(v) * (((Abs(v) + U \div 20) \div (U \div 10)) * (U \div 10))

\* The match start of the main menu (items 0 and 1): both paddles and the
\* ball are initialised and the countdown begins.
StartMatch(g, ai2) ==
    LET q1 == [PlayerInit(g.p1, -70 * U, FALSE, g.cfg.paddle_speed,
                          g.cfg.paddle_damping)
                 EXCEPT !.ai_mode = FALSE, !.score = 0]
        q2 == [PlayerInit(g.p2, 70 * U, ai2, g.cfg.paddle_speed,
                          g.cfg.paddle_damping)
                 EXCEPT !.ai_mode = ai2, !.score = 0]
    IN  [g EXCEPT !.p1 = q1, !.p2 = q2,
                  !.ball = BallInit(g.cfg.ball_speed),
                  !.win = [@ EXCEPT !.countdown_value = 3,
                                    !.countdown_time = 0,
                                    !.in_countdown = TRUE,
                                    !.menu_state = "MENU_PLAYING"]]

\* Mutant of the MENU_MAIN branch: the selection does not wrap.
MenuBranchNoWrap(g, btn) ==
    LET up == is_pressed(btn, "UP_ARROW") \/ is_pressed(btn, "UP")
        dn == is_pressed(btn, "DOWN_ARROW") \/ is_pressed(btn, "DOWN")
        g1 == IF up
              THEN [Cue(g, "navigation") EXCEPT !.win.menu_index = @ - 1]
              ELSE g
        g2 == IF dn
              THEN [Cue(g1, "navigation") EXCEPT !.win.menu_index = @ + 1]
              ELSE g1
        i  == g2.win.menu_index
    IN  IF ~is_pressed(btn, "ENTER") THEN g2
        ELSE Cue(CASE i = 0 -> StartMatch(g2, TRUE)
                   [] i = 1 -> StartMatch(g2, FALSE)
                   [] i = 2 -> [g2 EXCEPT !.win.menu_state = "MENU_SETTINGS"]
                   [] i = 3 -> [g2 EXCEPT !.win.running = FALSE]
                   [] OTHER -> g2,
                 "button")

\* The MENU_MAIN branch.
MenuBranch(g, btn) ==
    LET n  == 4
        up == is_pressed(btn, "UP_ARROW") \/ is_pressed(btn, "UP")
        dn == is_pressed(btn, "DOWN_ARROW") \/ is_pressed(btn, "DOWN")
        g1 == IF up
              THEN [Cue(g, "navigation") EXCEPT !.win.menu_index =
                        IF @ - 1 < 0 THEN n - 1 ELSE @ - 1]
              ELSE g
        g2 == IF dn
              THEN [Cue(g1, "navigation") EXCEPT !.win.menu_index =
                        IF @ + 1 >= n THEN 0 ELSE @ + 1]
              ELSE g1
        i  == g2.win.menu_index
    IN  IF ~is_pressed(btn, "ENTER") THEN g2
        ELSE Cue(CASE i = 0 -> StartMatch(g2, TRUE)
                   [] i = 1 -> StartMatch(g2, FALSE)
                   [] i = 2 -> [g2 EXCEPT !.win.menu_state = "MENU_SETTINGS"]
                   [] i = 3 -> [g2 EXCEPT !.win.running = FALSE]
                   [] OTHER -> g2,
                 "button")

\* AdjustSetting without std::max / std::min.
AdjustSettingNoClamp(g, dir) ==
    LET w    == g.win
        c    == g.cfg
        step == dir * (U \div 10)
        Lim(lo, v, hi) == v
        i    == w.settings_index
    IN  CASE i = 0 -> [g EXCEPT !.win.s_ball_speed =
                          Lim(U \div 2, round_to(@ + step), 3 * U)]
          [] i = 1 -> [g EXCEPT !.win.s_paddle_speed =
                          Lim(U \div 2, round_to(@ + step), 3 * U)]
          [] i = 2 -> [g EXCEPT !.win.s_paddle_damping =
                          Lim((8 * U) \div 10, round_to(@ + step), 2 * U)]
          [] i = 3 -> [g EXCEPT !.win.s_ai_difficulty = Lim(0, @ + dir, 4)]
          [] i = 4 -> [g EXCEPT !.cfg.music_enabled = (dir > 0)]
          [] i = 5 -> [g EXCEPT !.cfg.music_volume =
                          round_to(Lim(0, round_to(@ + step), U))]
          [] i = 6 -> [g EXCEPT !.cfg.sfx_volume =
                          round_to(Lim(0, round_to(@ + step), U))]
          [] i = 7 -> [g EXCEPT !.win.s_game_duration_secs =
                          Lim(5, @ + dir, 600)]
          [] OTHER -> g

\* The LEFT_ARROW (dir = -1) or RIGHT_ARROW (dir = 1) adjustment of the
\* selected Settings row.
AdjustSetting(g, dir) ==
    LET w    == g.win
        c    == g.cfg
        step == dir * (U \div 10)
        Lim(lo, v, hi) == IF dir < 0 THEN Max(lo, v) ELSE Min(hi, v)
        i    == w.settings_index
    IN  CASE i = 0 -> [g EXCEPT !.win.s_ball_speed =
                          Lim(U \div 2, round_to(@ + step), 3 * U)]
          [] i = 1 -> [g EXCEPT !.win.s_paddle_speed =
                          Lim(U \div 2, round_to(@ + step), 3 * U)]
          [] i = 2 -> [g EXCEPT !.win.s_paddle_damping =
                          Lim((8 * U) \div 10, round_to(@ + step), 2 * U)]
          [] i = 3 -> [g EXCEPT !.win.s_ai_difficulty = Lim(0, @ + dir, 4)]
          [] i = 4 -> [g EXCEPT !.cfg.music_enabled = (dir > 0)]
          [] i = 5 -> [g EXCEPT !.cfg.music_volume =
                          round_to(Lim(0, round_to(@ + step), U))]
          [] i = 6 -> [g EXCEPT !.cfg.sfx_volume =
                          round_to(Lim(0, round_to(@ + step), U))]
          [] i = 7 -> [g EXCEPT !.win.s_game_duration_secs =
                          Lim(5, @ + dir, 600)]
          [] OTHER -> g

\* Enter on the BACK row of Settings: the setters, Config::save_to_file
\* (which rounds the stored values once more) and the return to the menu.
SaveSettings(g) ==
    LET w == g.win
    IN  [Cue(g, "button_back") EXCEPT
           !.cfg = [@ EXCEPT
                      !.ball_speed = round_to(round_to(w.s_ball_speed)),
                      !.paddle_speed = round_to(round_to(w.s_paddle_speed)),
                      !.paddle_damping =
                          round_to(round_to(w.s_paddle_damping)),
                      !.ai_difficulty = w.s_ai_difficulty,
                      !.game_duration_secs = w.s_game_duration_secs,
                      !.music_volume = round_to(@),
                      !.sfx_volume = round_to(@)],
           !.win.menu_state = "MENU_MAIN"]

\* The MENU_SETTINGS branch.
SettingsBranch(g, btn) ==
    LET n  == 9
        up == is_pressed(btn, "UP_ARROW") \/ is_pressed(btn, "UP")
        dn == is_pressed(btn, "DOWN_ARROW") \/ is_pressed(btn, "DOWN")
        g1 == IF up
              THEN [Cue(g, "navigation") EXCEPT !.win.settings_index =
                        IF @ - 1 < 0 THEN n - 1 ELSE @ - 1]
              ELSE g
        g2 == IF dn
              THEN [Cue(g1, "navigation") EXCEPT !.win.settings_index =
                        IF @ + 1 >= n THEN 0 ELSE @ + 1]
              ELSE g1
        g3 == IF is_pressed(btn, "LEFT_ARROW")
              THEN AdjustSetting(Cue(g2, "setting"), -1)
              ELSE g2
        g4 == IF is_pressed(btn, "RIGHT_ARROW")
              THEN AdjustSetting(Cue(g3, "setting"), 1)
              ELSE g3
    IN  IF is_pressed(btn, "ENTER")
        THEN (IF g4.win.settings_index = n - 1 THEN SaveSettings(g4) ELSE g4)
        ELSE [g4 EXCEPT
                !.cfg = [@ EXCEPT
                           !.paddle_speed = g4.win.s_paddle_speed,
                           !.paddle_damping = g4.win.s_paddle_damping,
                           !.ball_speed = g4.win.s_ball_speed,
                           !.ai_difficulty = g4.win.s_ai_difficulty,
                           !.game_duration_secs =
                               g4.win.s_game_duration_secs]]

\* Mutant of the countdown sub-state: a long frame takes one step for each
\* 0.35 s it holds.
CountdownBranchCatchUp(g, dt) ==
    LET t   == g.win.countdown_time + dt
        hit == t >= 35
        v   == IF hit THEN g.win.countdown_value - (t \div 35)
               ELSE g.win.countdown_value
        g1  == [g EXCEPT !.win.countdown_time = IF hit THEN 0 ELSE t,
                         !.win.countdown_value = v]
        g2  == IF hit /\ v > 0 THEN Cue(g1, "countdown_tick")
               ELSE IF hit /\ v = 0 THEN Cue(g1, "go_tick")
               ELSE g1
    IN  IF v < 0
        THEN [g2 EXCEPT !.win = [@ EXCEPT !.in_countdown = FALSE,
                                          !.game_running = TRUE,
                                          !.paused = FALSE,
                                          !.game_timer_active = TRUE,
                                          !.game_time_elapsed = 0,
                                          !.time_up_state = FALSE]]
        ELSE g2

\* The text the countdown draws for countdown_value v.
CountdownText(v) == IF v > 0 THEN ToString(v) ELSE "GO!"

\* Mutant of the countdown: gameplay begins as soon as GO is reached.
CountdownBranchNoGo(g, dt) ==
    LET t   == g.win.countdown_time + dt
        hit == t >= 35
        v   == IF hit THEN g.win.countdown_value - 1
               ELSE g.win.countdown_value
        g1  == [g EXCEPT !.win.countdown_time = IF hit THEN 0 ELSE t,
                         !.win.countdown_value = v]
        g2  == IF hit /\ v > 0 THEN Cue(g1, "countdown_tick")
               ELSE IF hit /\ v = 0 THEN Cue(g1, "go_tick")
               ELSE g1
    IN  IF v <= 0
        THEN [g2 EXCEPT !.win = [@ EXCEPT !.in_countdown = FALSE,
                                          !.game_running = TRUE,
                                          !.paused = FALSE,
                                          !.game_timer_active = TRUE,
                                          !.game_time_elapsed = 0,
                                          !.time_up_state = FALSE]]
        ELSE g2

\* The countdown sub-state of MENU_PLAYING.
CountdownBranch(g, dt) ==
    LET t   == g.win.countdown_time + dt
        hit == t >= 35
        v   == IF hit THEN g.win.countdown_value - 1
               ELSE g.win.countdown_value
        g1  == [g EXCEPT !.win.countdown_time = IF hit THEN 0 ELSE t,
                         !.win.countdown_value = v]
        g2  == IF hit /\ v > 0 THEN Cue(g1, "countdown_tick")
               ELSE IF hit /\ v = 0 THEN Cue(g1, "go_tick")
               ELSE g1
    IN  IF v < 0
        THEN [g2 EXCEPT !.win = [@ EXCEPT !.in_countdown = FALSE,
                                          !.game_running = TRUE,
                                          !.paused = FALSE,
                                          !.game_timer_active = TRUE,
                                          !.game_time_elapsed = 0,
                                          !.time_up_state = FALSE]]
        ELSE g2

\* Mutant of CelebrationEnd: the goal is counted again when the
\* celebration ends.
CelebrationEndCountsAgain(g, f, b, dt, btn, rnd) ==
    LET fin == FlashFinished(f) /\ BurstFinished(b)
        bl  == IF fin THEN BallReset(g.ball) ELSE g.ball
        q1  == IF fin THEN [PlayerReset(g.p1) EXCEPT !.score = @ + 1]
               ELSE g.p1
        q2  == IF fin THEN PlayerReset(g.p2) ELSE g.p2
        bp  == [x |-> bl.x, y |-> bl.y]
        bv  == [x |-> bl.vx, y |-> bl.vy]
    IN  [g EXCEPT !.flash = f, !.burst = b, !.ball = bl,
                  !.p1 = PlayerUpdate(q1, dt, bp, bv, Medium, btn, rnd),
                  !.p2 = PlayerUpdate(q2, dt, bp, bv, Medium, btn, rnd),
                  !.win.in_celebration = IF fin THEN FALSE ELSE @]

\* The end of a celebration tick, with the updated flash f and burst b:
\* once both are finished the ball and the paddles are reset; then both
\* paddles are updated (at the default difficulty, Medium).
CelebrationEnd(g, f, b, dt, btn, rnd) ==
    LET fin == FlashFinished(f) /\ BurstFinished(b)
        bl  == IF fin THEN BallReset(g.ball) ELSE g.ball
        q1  == IF fin THEN PlayerReset(g.p1) ELSE g.p1
        q2  == IF fin THEN PlayerReset(g.p2) ELSE g.p2
        bp  == [x |-> bl.x, y |-> bl.y]
        bv  == [x |-> bl.vx, y |-> bl.vy]
    IN  [g EXCEPT !.flash = f, !.burst = b, !.ball = bl,
                  !.p1 = PlayerUpdate(q1, dt, bp, bv, Medium, btn, rnd),
                  !.p2 = PlayerUpdate(q2, dt, bp, bv, Medium, btn, rnd),
                  !.win.in_celebration = IF fin THEN FALSE ELSE @]

\* The celebration sub-state: the effects advance, then CelebrationEnd.
CelebrationBranch(g, dt, btn, rnd) ==
    TheOne({CelebrationEnd(g, f, b, dt, btn, rnd) :
            f \in {FlashUpdate(g.flash, dt)},
            b \in {BurstUpdate(g.burst, dt)}})

\* Mutant of the pause overlay: the time-up delay keeps running.
OverlayBranchDelayRuns(g, btn) ==
    LET n  == 3
        up == is_pressed(btn, "UP_ARROW") \/ is_pressed(btn, "UP")
        dn == is_pressed(btn, "DOWN_ARROW") \/ is_pressed(btn, "DOWN")
        g0 == IF g.win.time_up_state
              THEN [g EXCEPT !.win.time_up_delay = @ + 1]
              ELSE g
        g1 == IF up
              THEN [Cue(g0, "navigation") EXCEPT !.win.paused_index =
                        (@ - 1 + n) % n]
              ELSE g0
    IN  IF dn
        THEN [Cue(g1, "navigation") EXCEPT !.win.paused_index = (@ + 1) % n]
        ELSE g1

\* The pause overlay (confirm_modal, outside countdown and celebration):
\* only the selection moves.
OverlayBranch(g, btn) ==
    LET n  == 3
        up == is_pressed(btn, "UP_ARROW") \/ is_pressed(btn, "UP")
        dn == is_pressed(btn, "DOWN_ARROW") \/ is_pressed(btn, "DOWN")
        g1 == IF up
              THEN [Cue(g, "navigation") EXCEPT !.win.paused_index =
                        (@ - 1 + n) % n]
              ELSE g
    IN  IF dn
        THEN [Cue(g1, "navigation") EXCEPT !.win.paused_index = (@ + 1) % n]
        ELSE g1

\* The match clock part of the playing sub-state.
MatchClock(g, dt) ==
    LET w == g.win
    IN  IF ~(w.game_timer_active /\ ~w.paused /\ ~w.confirm_modal
             /\ ~w.in_countdown /\ ~w.time_up_state)
        THEN g
        ELSE LET e         == w.game_time_elapsed + dt
                 total     == g.cfg.game_duration_secs * CS
                 time_left == Max(0, total - e)
                 minutes   == (time_left \div CS) \div 60
                 seconds   == (time_left \div CS) % 60
                 last      == minutes = 0 /\ seconds <= 5
                 tt        == w.tick_timer + dt
                 g1 == [g EXCEPT !.win.game_time_elapsed = e,
                                 !.win.tick_timer =
                                     IF last THEN (IF tt >= CS THEN 0 ELSE tt)
                                     ELSE @]
                 g2 == IF last /\ tt >= CS THEN Cue(g1, "game_timer_tick")
                       ELSE g1
             IN  IF e >= total
                 THEN [Cue(g2, "winner") EXCEPT
                         !.win = [@ EXCEPT !.game_timer_active = FALSE,
                                           !.time_up_state = TRUE,
                                           !.time_up_delay = 0]]
                 ELSE g2

\* ball.update(dt) of the playing sub-state, with the updated paddles q1
\* and q2: the ball moves, a goal raises the scorer's score, and the cues
\* of the update are requested.
PlayBall(g, q1, q2, dt) ==
    TheOne({[g EXCEPT !.p1 = [q1 EXCEPT !.score = @ + r.inc1],
                      !.p2 = [q2 EXCEPT !.score = @ + r.inc2],
                      !.ball = r.b,
                      !.cues = @ \o r.cues] :
            r \in {BallUpdate(g.ball, q1, q2, dt)}})

\* Mutant of the physics of the playing sub-state: time_up_state is not
\* tested.
PlayPhysicsNoFreeze(g, dt, btn, rnd) ==
    LET bp == [x |-> g.ball.x, y |-> g.ball.y]
        bv == [x |-> g.ball.vx, y |-> g.ball.vy]
        d  == g.cfg.ai_difficulty
    IN  IF FALSE THEN g
        ELSE TheOne({PlayBall(g, q1, q2, dt) :
                     q1 \in {PlayerUpdate(g.p1, dt, bp, bv, d, btn, rnd)},
                     q2 \in {PlayerUpdate(g.p2, dt, bp, bv, d, btn, rnd)}})

\* The physics of the playing sub-state: both paddles, then the ball;
\* nothing once the time is up.
PlayPhysics(g, dt, btn, rnd) ==
    LET bp == [x |-> g.ball.x, y |-> g.ball.y]
        bv == [x |-> g.ball.vx, y |-> g.ball.vy]
        d  == g.cfg.ai_difficulty
    IN  IF g.win.time_up_state THEN g
        ELSE TheOne({PlayBall(g, q1, q2, dt) :
                     q1 \in {PlayerUpdate(g.p1, dt, bp, bv, d, btn, rnd)},
                     q2 \in {PlayerUpdate(g.p2, dt, bp, bv, d, btn, rnd)}})

\* Mutant of the winner text: player 1 is also named when the scores are
\* equal.
TimeUpBannerNonStrict(g) ==
    IF g.p1.score >= g.p2.score THEN "PLAYER 1 WINS!"
    ELSE IF g.p2.score > g.p1.score THEN "PLAYER 2 WINS!"
    ELSE "DRAW!"

\* The winner text of the time-up banner.
TimeUpBanner(g) ==
    IF g.p1.score > g.p2.score THEN "PLAYER 1 WINS!"
    ELSE IF g.p2.score > g.p1.score THEN "PLAYER 2 WINS!"
    ELSE "DRAW!"

\* Mutant of the end of the playing sub-state: the ball and the paddles are
\* reset when the celebration starts.
PlayEndEarlyReset(g2, dt, draw) ==
    LET td == g2.win.time_up_delay + dt
        gb == [g2 EXCEPT !.banner = TimeUpBanner(g2)]
    IN  IF g2.win.time_up_state /\ td >= 250
        THEN [g |-> [gb EXCEPT !.win = [@ EXCEPT !.time_up_delay = td,
                                                  !.menu_state = "MENU_MAIN",
                                                  !.time_up_state = FALSE]],
              skip |-> TRUE]
        ELSE IF g2.win.time_up_state
        THEN [g |-> [gb EXCEPT !.win.time_up_delay = td], skip |-> FALSE]
        ELSE IF g2.ball.scored
        THEN [g |-> [g2 EXCEPT
                       !.ball = BallReset(@),
                       !.p1 = PlayerReset(@),
                       !.p2 = PlayerReset(@),
                       !.win.in_celebration = TRUE,
                       !.burst = BurstStart(@, g2.ball.x, g2.ball.y, draw),
                       !.flash = FlashStart(@)],
              skip |-> FALSE]
        ELSE [g |-> g2, skip |-> FALSE]

\* Mutant of the end of the playing sub-state: the return to the menu
\* comes after 2 s.
PlayEndShortDelay(g2, dt, draw) ==
    LET td == g2.win.time_up_delay + dt
        gb == [g2 EXCEPT !.banner = TimeUpBanner(g2)]
    IN  IF g2.win.time_up_state /\ td >= 200
        THEN [g |-> [gb EXCEPT !.win = [@ EXCEPT !.time_up_delay = td,
                                                  !.menu_state = "MENU_MAIN",
                                                  !.time_up_state = FALSE]],
              skip |-> TRUE]
        ELSE IF g2.win.time_up_state
        THEN [g |-> [gb EXCEPT !.win.time_up_delay = td], skip |-> FALSE]
        ELSE IF g2.ball.scored
        THEN [g |-> [g2 EXCEPT
                       !.win.in_celebration = TRUE,
                       !.burst = BurstStart(@, g2.ball.x, g2.ball.y, draw),
                       !.flash = FlashStart(@)],
              skip |-> FALSE]
        ELSE [g |-> g2, skip |-> FALSE]

\* The end of the playing sub-state, after the match clock: the time-up
\* banner, delay and return to the menu, or the start of a celebration.
\* The result is the new game state and whether the iteration ended early
\* (the continue of the time-up return to the menu).
PlayEnd(g2, dt, draw) ==
    LET td == g2.win.time_up_delay + dt
        gb == [g2 EXCEPT !.banner = TimeUpBanner(g2)]
    IN  IF g2.win.time_up_state /\ td >= 250
        THEN [g |-> [gb EXCEPT !.win = [@ EXCEPT !.time_up_delay = td,
                                                  !.menu_state = "MENU_MAIN",
                                                  !.time_up_state = FALSE]],
              skip |-> TRUE]
        ELSE IF g2.win.time_up_state
        THEN [g |-> [gb EXCEPT !.win.time_up_delay = td], skip |-> FALSE]
        ELSE IF g2.ball.scored
        THEN [g |-> [g2 EXCEPT
                       !.win.in_celebration = TRUE,
                       !.burst = BurstStart(@, g2.ball.x, g2.ball.y, draw),
                       !.flash = FlashStart(@)],
              skip |-> FALSE]
        ELSE [g |-> g2, skip |-> FALSE]

\* The playing sub-state (no countdown, no celebration, overlay closed).
PlayBranch(g, dt, btn, rnd, draw) ==
    TheOne({PlayEnd(g2, dt, draw) :
            g2 \in {MatchClock(g1, dt) :
                    g1 \in {PlayPhysics(g, dt, btn, rnd)}}})

\* Esc toggles the pause overlay in every sub-state of MENU_PLAYING.
EscToggle(g, btn) ==
    IF is_pressed(btn, "ESC")
    THEN [g EXCEPT !.win.confirm_modal = ~@]
    ELSE g

\* Mutant of Restart: the scores are kept.
PauseRestartKeepScores(g) ==
    [Cue(g, "button_back") EXCEPT
       !.p1 = PlayerReset(@),
       !.p2 = PlayerReset(@),
       !.ball = BallReset(@),
       !.burst.active = FALSE,
       !.flash.active = FALSE,
       !.win = [@ EXCEPT !.in_celebration = FALSE,
                         !.countdown_value = 3,
                         !.countdown_time = 0,
                         !.in_countdown = TRUE,
                         !.game_time_elapsed = 0,
                         !.game_timer_active = TRUE,
                         !.game_running = FALSE,
                         !.paused = FALSE,
                         !.confirm_modal = FALSE,
                         !.menu_state = "MENU_PLAYING"]]

\* Restart in the pause overlay.
PauseRestart(g) ==
    [Cue(g, "button_back") EXCEPT
       !.p1 = [PlayerReset(@) EXCEPT !.score = 0],
       !.p2 = [PlayerReset(@) EXCEPT !.score = 0],
       !.ball = BallReset(@),
       !.burst.active = FALSE,
       !.flash.active = FALSE,
       !.win = [@ EXCEPT !.in_celebration = FALSE,
                         !.countdown_value = 3,
                         !.countdown_time = 0,
                         !.in_countdown = TRUE,
                         !.game_time_elapsed = 0,
                         !.game_timer_active = TRUE,
                         !.game_running = FALSE,
                         !.paused = FALSE,
                         !.confirm_modal = FALSE,
                         !.menu_state = "MENU_PLAYING"]]

\* Main Menu in the pause overlay.
PauseMainMenu(g) ==
    [g EXCEPT
       !.ball = BallReset(@),
       !.p1 = PlayerReset(@),
       !.p2 = PlayerReset(@),
       !.burst.active = FALSE,
       !.flash.active = FALSE,
       !.win = [@ EXCEPT !.game_running = FALSE,
                         !.paused = FALSE,
                         !.in_countdown = FALSE,
                         !.confirm_modal = FALSE,
                         !.menu_state = "MENU_MAIN"]]

\* The action of the pause overlay on Enter or P.
PauseActions(g, btn) ==
    IF ~(g.win.confirm_modal
         /\ (is_pressed(btn, "ENTER") \/ is_pressed(btn, "PAUSE")))
    THEN g
    ELSE LET g1 == Cue(g, "button")
             i  == g.win.paused_index
         IN  CASE i = 0 -> [g1 EXCEPT !.win.confirm_modal = FALSE]
               [] i = 1 -> PauseRestart(g1)
               [] i = 2 -> PauseMainMenu(g1)
               [] OTHER -> g1

\* The sub-state of MENU_PLAYING that a tick runs.
SubState(w) ==
    IF w.in_countdown THEN "countdown"
    ELSE IF w.in_celebration THEN "celebration"
    ELSE IF w.confirm_modal THEN "overlay"
    ELSE "playing"

\* Mutant of the MENU_PLAYING branch: in_countdown is not tested, so the
\* other sub-states run during the countdown.
MatchBranchNoCountdown(g, dt, btn, rnd, draw) ==
    LET sub == SubState([g.win EXCEPT !.in_countdown = FALSE])
    IN  TheOne({IF r.skip THEN r.g
                ELSE PauseActions(EscToggle(r.g, btn), btn) :
                r \in {CASE sub = "countdown" ->
                              [g |-> CountdownBranch(g, dt), skip |-> FALSE]
                         [] sub = "celebration" ->
                              [g |-> CelebrationBranch(g, dt, btn, rnd),
                               skip |-> FALSE]
                         [] sub = "overlay" ->
                              [g |-> OverlayBranch(g, btn), skip |-> FALSE]
                         [] OTHER -> PlayBranch(g, dt, btn, rnd, draw)}})

\* The MENU_PLAYING branch: the sub-state, then the Esc toggle and the
\* pause actions.
MatchBranch(g, dt, btn, rnd, draw) ==
    LET sub == SubState(g.win)
    IN  TheOne({IF r.skip THEN r.g
                ELSE PauseActions(EscToggle(r.g, btn), btn) :
                r \in {CASE sub = "countdown" ->
                              [g |-> CountdownBranch(g, dt), skip |-> FALSE]
                         [] sub = "celebration" ->
                              [g |-> CelebrationBranch(g, dt, btn, rnd),
                               skip |-> FALSE]
                         [] sub = "overlay" ->
                              [g |-> OverlayBranch(g, btn), skip |-> FALSE]
                         [] OTHER -> PlayBranch(g, dt, btn, rnd, draw)}})

\* The branch of the main loop that a tick runs.
Branch(w) ==
    CASE w.menu_state = "MENU_MAIN" -> "menu"
      [] w.menu_state = "MENU_SETTINGS" -> "settings"
      [] w.menu_state = "MENU_PLAYING" -> SubState(w)
      [] OTHER -> "none"

\* One iteration of the loop of Window::mainloop on the game state g, from
\* the dispatch on menu_state on: the message pump has run, btn holds the
\* keys it left and g.win.running is FALSE when it dispatched WM_CLOSE.
MainloopTick(g, dt, btn, rnd, draw) ==
    CASE g.win.menu_state = "MENU_MAIN" -> MenuBranch(g, btn)
      [] g.win.menu_state = "MENU_SETTINGS" -> SettingsBranch(g, btn)
      [] g.win.menu_state = "MENU_PLAYING" ->
             MatchBranch(g, dt, btn, rnd, draw)
      [] OTHER -> g

----------------------------------------------------------------------------
(* Spec: the game from construction, one action per branch of the main     *)
(* loop.  Each tick draws the frame time, the key messages of the frame,   *)
(* the AI's random numbers and the lives of a burst it may start.          *)

MaxTicks == 8
MaxPressTicks == 4

\* Frame times, in 1/CS seconds.
DtChoices == {0, 40, 100}

\* The keys that go down in a frame, in message order.
PressChoices == {<<>>, <<"ENTER">>, <<"ESC">>, <<"DOWN">>,
                 <<"ESC", "ENTER">>, <<"DOWN", "ESC">>}

KeyOrder == <<"LEFT_ARROW", "UP_ARROW", "RIGHT_ARROW", "DOWN_ARROW",
              "LEFT", "UP", "RIGHT", "DOWN", "ENTER", "F11", "PAUSE", "ESC">>

\* The key messages of a frame in which the keys of press go down: every
\* key that is held is released first.
FrameMessages(btn, press) ==
    LET Held(k) == btn[k].is_down
        ups   == SelectSeq(KeyOrder, Held)
    IN  [i \in 1..Len(ups) |-> [key |-> ups[i], down |-> FALSE]]
        \o [i \in 1..Len(press) |-> [key |-> press[i], down |-> TRUE]]

\* The lives drawn for a burst started in the game.
GameLifeDraws == {DrawLongest, DrawSpread}

Init ==
    /\ p1 = PlayerBlank(FALSE)
    /\ p2 = PlayerBlank(TRUE)
    /\ ball = BallBlank
    /\ burst = BurstBlank
    /\ flash = FlashBlank
    /\ cfg = CfgDefault
    /\ win = WinInit(CfgDefault)
    /\ buttons = ButtonsInit
    /\ io = IoNone
    /\ obs = [op |-> "none", presses |-> 0]
    /\ ticks = 0

\* One iteration of the main loop.  The keys either stay as they are (no
\* key message) or the held ones are released and those of one of
\* PressChoices go down; a frame without key messages may bring WM_CLOSE,
\* which clears running before the branch of the iteration runs.  The
\* random numbers and the lives are drawn only where the branch can use
\* them.
Tick ==
    /\ win.running
    /\ ticks < MaxTicks
    /\ \E dt \in DtChoices, quiet \in BOOLEAN, press \in PressChoices,
          rnd \in RndChoices, draw \in GameLifeDraws, close \in BOOLEAN :
         /\ quiet => press = <<>>
         /\ close => quiet
         /\ obs.presses + (IF quiet THEN 0 ELSE 1) <= MaxPressTicks
         /\ (~(Branch(win) = "playing"
               /\ CallsRand(p2, [x |-> ball.x, y |-> ball.y],
                            [x |-> ball.vx, y |-> ball.vy],
                            cfg.ai_difficulty))
                => rnd = RndUnused)
         /\ (Branch(win) # "playing" => draw = DrawLongest)
         /\ \E btn \in {IF quiet THEN ClearChanged(buttons)
                        ELSE PumpMessages(ClearChanged(buttons),
                                          FrameMessages(buttons, press))} :
            \E g \in {MainloopTick([p1 |-> p1, p2 |-> p2, ball |-> ball,
                                    burst |-> burst, flash |-> flash,
                                    win |-> IF close THEN WndProcClose(win)
                                            ELSE win,
                                    cfg |-> cfg, cues |-> <<>>,
                                    banner |-> "none"],
                                   dt, btn, rnd, draw)} :
             /\ p1' = g.p1
             /\ p2' = g.p2
             /\ ball' = g.ball
             /\ burst' = g.burst
             /\ flash' = g.flash
             /\ win' = g.win
             /\ cfg' = g.cfg
             /\ buttons' = btn
             /\ obs' = [op |-> "tick", branch |-> Branch(win), dt |-> dt,
                        cues |-> g.cues, closed |-> close,
                        presses |-> obs.presses + (IF quiet THEN 0 ELSE 1),
                        pre |-> [p1 |-> p1, p2 |-> p2, ball |-> ball,
                                 burst |-> burst, flash |-> flash,
                                 win |-> win, cfg |-> cfg]]
    /\ ticks' = ticks + 1
    /\ UNCHANGED io

TickMenu == Branch(win) = "menu" /\ Tick
TickSettings == Branch(win) = "settings" /\ Tick
TickCountdown == Branch(win) = "countdown" /\ Tick
TickCelebration == Branch(win) = "celebration" /\ Tick
TickOverlay == Branch(win) = "overlay" /\ Tick
TickPlaying == Branch(win) = "playing" /\ Tick

Next ==
    \/ TickMenu
    \/ TickSettings
    \/ TickCountdown
    \/ TickCelebration
    \/ TickOverlay
    \/ TickPlaying

Spec == Init /\ [][Next]_vars

----------------------------------------------------------------------------
(* SpecSettings: the main menu and the Settings screen, from construction  *)
(* with a configuration as Config::load_from_file leaves it.  The file is  *)
(* not validated: a ball speed is only rounded to a tenth and a difficulty *)
(* is any integer.  Each step is one iteration of the main loop with the   *)
(* keys of the two screens.  The menu and the Settings branch do not use   *)
(* the frame time.                                                         *)

MaxSettingsTicks == 7

\* The ball speeds and difficulties of the loaded configuration: the
\* default, both ends of the Settings range and one value outside it.
LoadedBallSpeeds == {U \div 2, (14 * U) \div 10, 3 * U, (35 * U) \div 10}
LoadedDifficulties == {Easy, Medium, Unbeatable, 7}

LoadedCfg(bs, ai) == [CfgDefault EXCEPT !.ball_speed = round_to(bs),
                                        !.ai_difficulty = ai]

\* The keys that go down in a frame of the menu or the Settings screen.
SettingsPressChoices == {<<>>, <<"UP">>, <<"DOWN">>, <<"LEFT_ARROW">>,
                         <<"RIGHT_ARROW">>, <<"ENTER">>,
                         <<"RIGHT_ARROW", "ENTER">>}

InitSettings ==
    /\ p1 = PlayerBlank(FALSE)
    /\ p2 = PlayerBlank(TRUE)
    /\ ball = BallBlank
    /\ burst = BurstBlank
    /\ flash = FlashBlank
    /\ \E bs \in LoadedBallSpeeds, ai \in LoadedDifficulties :
         /\ cfg = LoadedCfg(bs, ai)
         /\ win = WinInit(LoadedCfg(bs, ai))
    /\ buttons = ButtonsInit
    /\ io = IoNone
    /\ obs = [op |-> "none"]
    /\ ticks = 0

\* One iteration of the main loop in the menu or the Settings screen.  The
\* frames of this specification bring key messages only.
KeysTick ==
    /\ win.running
    /\ ticks < MaxSettingsTicks
    /\ \E press \in SettingsPressChoices :
        \E btn \in {PumpMessages(ClearChanged(buttons),
                                 FrameMessages(buttons, press))} :
         \E g \in {MainloopTick([p1 |-> p1, p2 |-> p2, ball |-> ball,
                                 burst |-> burst, flash |-> flash,
                                 win |-> win, cfg |-> cfg, cues |-> <<>>,
                                    banner |-> "none"],
                                0, btn, RndUnused, DrawLongest)} :
             /\ p1' = g.p1
             /\ p2' = g.p2
             /\ ball' = g.ball
             /\ burst' = g.burst
             /\ flash' = g.flash
             /\ win' = g.win
             /\ cfg' = g.cfg
             /\ buttons' = btn
             /\ obs' = [op |-> "tick", branch |-> Branch(win), dt |-> 0,
                        cues |-> g.cues,
                        pre |-> [win |-> win, cfg |-> cfg]]
    /\ ticks' = ticks + 1
    /\ UNCHANGED io

MenuKeys == Branch(win) = "menu" /\ KeysTick
SettingsKeys == Branch(win) = "settings" /\ KeysTick

NextSettings ==
    \/ MenuKeys
    \/ SettingsKeys

SpecSettings == InitSettings /\ [][NextSettings]_vars

----------------------------------------------------------------------------
(* SpecMatch: a match from its countdown to the time-up return to the menu. *)
(* Init draws a match that has just been started or restarted, with a      *)
(* loaded match duration of one second; each step is one iteration of the  *)
(* main loop in MENU_PLAYING.                                              *)

MaxMatchTicks == 6
MaxMatchPresses == 2

\* Frame times of a match, in 1/CS seconds.
MatchDtChoices == {0, 40, 100}

\* The keys that go down in a frame of a match.
MatchPressChoices == {<<>>, <<"ESC">>, <<"ENTER">>, <<"DOWN">>,
                      <<"ESC", "ENTER">>}

\* The configuration of the match: the defaults with the duration that
\* Config::load_from_file read (any u16; Settings alone keeps it >= 5).
\* At the default ball speed the first goal falls before the second is
\* over; at the lowest speed of Settings the time is up first.
MatchCfg == [CfgDefault EXCEPT !.game_duration_secs = 1]
SlowBallCfg == [MatchCfg EXCEPT !.ball_speed = U \div 2]

\* The game after Enter on the first item of the main menu, with the
\* loaded configuration c.
FirstMatch(c) ==
    StartMatch([p1 |-> PlayerBlank(FALSE), p2 |-> PlayerBlank(TRUE),
                ball |-> BallBlank, burst |-> BurstBlank,
                flash |-> FlashBlank, win |-> WinInit(c),
                cfg |-> c, cues |-> <<>>, banner |-> "none"], TRUE)

\* A match in play: the countdown of g has run to its end, one frame of
\* e / CS seconds was played without a key (none when e = 0: only the play
\* branch raises game_time_elapsed, and it moves the ball and the second
\* timer with it), then the pause overlay was opened, row i selected and
\* the overlay closed.
InPlay(g, e, i) ==
    LET c == [g EXCEPT !.win = [@ EXCEPT !.in_countdown = FALSE,
                                         !.countdown_value = -1,
                                         !.game_running = TRUE,
                                         !.game_timer_active = TRUE,
                                         !.game_time_elapsed = 0]]
        f == IF e = 0 THEN c
             ELSE PlayBranch(c, e, ClearChanged(ButtonsInit), RndUnused,
                             DrawLongest).g
    IN  [f EXCEPT !.cues = <<>>, !.win.paused_index = i]

\* The matches a countdown can belong to: the first match, with either
\* configuration; a match
\* restarted from the pause overlay (RESTART stays selected); a match
\* started from the menu after MAIN MENU of the pause overlay ended an
\* earlier one (MAIN MENU stays selected and the old match time remains).
MatchStarts ==
    {FirstMatch(MatchCfg),
     FirstMatch(SlowBallCfg),
     PauseRestart([InPlay(FirstMatch(MatchCfg), 40, 1)
                     EXCEPT !.win.confirm_modal = TRUE]),
     StartMatch(PauseMainMenu([InPlay(FirstMatch(MatchCfg), 40, 2)
                                 EXCEPT !.win.confirm_modal = TRUE]), TRUE)}

InitMatch ==
    /\ \E g \in MatchStarts, v \in {3, 0} :
         /\ p1 = g.p1
         /\ p2 = g.p2
         /\ ball = g.ball
         /\ burst = g.burst
         /\ flash = g.flash
         /\ cfg = g.cfg
         /\ win = [g.win EXCEPT !.countdown_value = v]
    /\ buttons = ButtonsInit
    /\ io = IoNone
    /\ obs = [op |-> "none", presses |-> 0]
    /\ ticks = 0

\* One iteration of the main loop during a match.  The frames of this
\* specification bring key messages only.
MatchTick ==
    /\ win.running
    /\ win.menu_state = "MENU_PLAYING"
    /\ ticks < MaxMatchTicks
    /\ \E dt \in MatchDtChoices, quiet \in BOOLEAN,
          press \in MatchPressChoices, draw \in GameLifeDraws :
         /\ quiet => press = <<>>
         /\ obs.presses + (IF quiet THEN 0 ELSE 1) <= MaxMatchPresses
         /\ (Branch(win) # "playing" => draw = DrawLongest)
         /\ \E btn \in {IF quiet THEN ClearChanged(buttons)
                        ELSE PumpMessages(ClearChanged(buttons),
                                          FrameMessages(buttons, press))} :
            \E g \in {MainloopTick([p1 |-> p1, p2 |-> p2, ball |-> ball,
                                    burst |-> burst, flash |-> flash,
                                    win |-> win, cfg |-> cfg, cues |-> <<>>,
                                    banner |-> "none"],
                                   dt, btn, RndUnused, draw)} :
             /\ p1' = g.p1
             /\ p2' = g.p2
             /\ ball' = g.ball
             /\ burst' = g.burst
             /\ flash' = g.flash
             /\ win' = g.win
             /\ cfg' = g.cfg
             /\ buttons' = btn
             /\ obs' = [op |-> "tick", branch |-> Branch(win), dt |-> dt,
                        cues |-> g.cues, banner |-> g.banner,
                        presses |-> obs.presses + (IF quiet THEN 0 ELSE 1),
                        pre |-> [p1 |-> p1, p2 |-> p2, ball |-> ball,
                                 burst |-> burst, flash |-> flash,
                                 win |-> win, cfg |-> cfg]]
    /\ ticks' = ticks + 1
    /\ UNCHANGED io

MatchCountdown == Branch(win) = "countdown" /\ MatchTick
MatchCelebration == Branch(win) = "celebration" /\ MatchTick
MatchOverlay == Branch(win) = "overlay" /\ MatchTick
MatchPlaying == Branch(win) = "playing" /\ MatchTick

NextMatch ==
    \/ MatchCountdown
    \/ MatchCelebration
    \/ MatchOverlay
    \/ MatchPlaying

SpecMatch == InitMatch /\ [][NextMatch]_vars

----------------------------------------------------------------------------
(* The renderer (struct Renderer) and the pixel buffer of the window.       *)
(* RenderState is [memory, width, height]; memory is the allocation, null  *)
(* or size pixels long.  Pixel values are not kept: a drawing operation    *)
(* yields the set of buffer indices (offsets from memory, in pixels) it    *)
(* stores to.  Coordinates of render_rect, render_glyph_5x7 and            *)
(* render_text are game units in 1/U; pixel coordinates are i32.           *)

I32Max == 2147483647
I32Min == -I32Max - 1

\* RenderState as constructed: no buffer, width = height = 0.
RenderStateInit ==
    [memory |-> [null |-> TRUE, size |-> 0], width |-> 0, height |-> 0]

\* utils::clamp(min, value, max).
clamp(min, value, max) ==
    IF value < min THEN min
    ELSE IF value > max THEN max
    ELSE value

\* std::lroundf: to the nearest integer, halves away from zero.
lroundf(f) ==
    TheOne({LET m == Abs(x[1])
                d == -x[2]
            IN  Sgn(x[1]) * (IF d <= 0 THEN m * (2 ^ x[2])
                             ELSE IF d >= 25 THEN 0
                             ELSE (m + 2 ^ (d - 1)) \div (2 ^ d)) :
            x \in {f}})

\* Renderer::clear_screen: the indices std::fill_n stores to.
clear_screen(rs) ==
    IF rs.memory.null THEN {}
    ELSE 0 .. (rs.width * rs.height - 1)

\* Mutant of render_rect_pixels: both loops include their upper bound.
render_rect_pixels_inclusive(rs, x0, y0, x1, y1) ==
    LET cx0 == clamp(0, x0, rs.width)
        cx1 == clamp(0, x1, rs.width)
        cy0 == clamp(0, y0, rs.height)
        cy1 == clamp(0, y1, rs.height)
    IN  IF rs.memory.null THEN {}
        ELSE {cx0 + y * rs.width + (x - cx0) : x \in cx0 .. cx1,
                                              y \in cy0 .. cy1}

\* Mutant of render_rect_pixels: x0 and x1 are clamped to the height.
render_rect_pixels_clamp_height(rs, x0, y0, x1, y1) ==
    LET cx0 == clamp(0, x0, rs.height)
        cx1 == clamp(0, x1, rs.height)
        cy0 == clamp(0, y0, rs.height)
        cy1 == clamp(0, y1, rs.height)
    IN  IF rs.memory.null THEN {}
        ELSE {cx0 + y * rs.width + (x - cx0) : x \in cx0 .. (cx1 - 1),
                                              y \in cy0 .. (cy1 - 1)}

\* Renderer::render_rect_pixels: the four coordinates are clamped to the
\* viewport; row y stores from memory + x0 + y * width onwards, one pixel
\* per x in [x0, x1).
render_rect_pixels(rs, x0, y0, x1, y1) ==
    LET cx0 == clamp(0, x0, rs.width)
        cx1 == clamp(0, x1, rs.width)
        cy0 == clamp(0, y0, rs.height)
        cy1 == clamp(0, y1, rs.height)
    IN  IF rs.memory.null THEN {}
        ELSE {cx0 + y * rs.width + (x - cx0) : x \in cx0 .. (cx1 - 1),
                                              y \in cy0 .. (cy1 - 1)}

\* The pixel rectangle <<x0, y0, x1, y1>> that render_rect passes on, for
\* floats x, y, half_x and half_y: the centre and the half sizes are scaled
\* by height * 0.01f and the centre is moved to the middle of the viewport.
RectPixels(rs, x, y, half_x, half_y) ==
    TheOne(UNION {{<<lroundf(F32Sub(sx, hx)), lroundf(F32Sub(sy, hy)),
                     lroundf(F32Add(sx, hx)), lroundf(F32Add(sy, hy))>> :
                   sx \in {F32Add(F32Mul(x, scale),
                                  F32Mul(F32FromInt(rs.width), F32Half))},
                   sy \in {F32Add(F32Mul(y, scale),
                                  F32Mul(F32FromInt(rs.height), F32Half))},
                   hx \in {F32Mul(half_x, scale)},
                   hy \in {F32Mul(half_y, scale)}} :
                  scale \in {F32Mul(F32FromInt(rs.height),
                                    F32Hundredth)}})

\* Renderer::render_rect, for floats x, y, half_x and half_y.
render_rect(rs, x, y, half_x, half_y) ==
    IF rs.height = 0 \/ rs.width = 0 THEN {}
    ELSE UNION {render_rect_pixels(rs, r[1], r[2], r[3], r[4]) :
                r \in {RectPixels(rs, x, y, half_x, half_y)}}

\* Renderer::FONT_5x7: seven rows of five bits per glyph; glyph idx of the
\* source is FONT_5x7[idx + 1].
FONT_5x7 ==
    << <<14, 17, 19, 21, 25, 17, 14>>, <<4, 12, 4, 4, 4, 4, 14>>,
       <<14, 17, 1, 2, 4, 8, 31>>, <<14, 17, 1, 6, 1, 17, 14>>,
       <<2, 6, 10, 18, 31, 2, 2>>, <<31, 16, 30, 1, 1, 17, 14>>,
       <<6, 8, 16, 30, 17, 17, 14>>, <<31, 1, 2, 4, 8, 8, 8>>,
       <<14, 17, 17, 14, 17, 17, 14>>, <<14, 17, 17, 15, 1, 2, 12>>,
       <<14, 17, 17, 31, 17, 17, 17>>, <<30, 17, 17, 30, 17, 17, 30>>,
       <<14, 17, 16, 16, 16, 17, 14>>, <<28, 18, 17, 17, 17, 18, 28>>,
       <<31, 16, 16, 28, 16, 16, 31>>, <<31, 16, 16, 28, 16, 16, 16>>,
       <<14, 17, 16, 23, 17, 17, 15>>, <<17, 17, 17, 31, 17, 17, 17>>,
       <<14, 4, 4, 4, 4, 4, 14>>, <<7, 2, 2, 2, 2, 18, 12>>,
       <<17, 18, 20, 24, 20, 18, 17>>, <<16, 16, 16, 16, 16, 16, 31>>,
       <<17, 27, 21, 21, 17, 17, 17>>, <<17, 25, 21, 19, 17, 17, 17>>,
       <<14, 17, 17, 17, 17, 17, 14>>, <<30, 17, 17, 30, 16, 16, 16>>,
       <<14, 17, 17, 17, 21, 18, 13>>, <<30, 17, 17, 30, 20, 18, 17>>,
       <<15, 16, 16, 14, 1, 1, 30>>, <<31, 4, 4, 4, 4, 4, 4>>,
       <<17, 17, 17, 17, 17, 17, 14>>, <<17, 17, 17, 10, 10, 4, 4>>,
       <<17, 17, 17, 21, 21, 27, 17>>, <<17, 17, 10, 4, 10, 17, 17>>,
       <<17, 17, 10, 4, 4, 4, 4>>, <<31, 1, 2, 4, 8, 16, 31>>,
       <<0, 0, 0, 0, 0, 0, 0>>,
       <<25, 26, 4, 8, 19, 3, 0>>,
       <<0, 4, 0, 0, 4, 0, 0>>,
       <<0, 0, 0, 14, 0, 0, 0>>,
       <<4, 4, 4, 4, 0, 4, 0>> >>

\* Mutant of glyph_index: the mapping of src/game.hpp, without the four
\* punctuation glyphs.
glyph_index_letters_only(c) ==
    LET ch == IF c < 32 \/ c > 90 THEN 32 ELSE c
    IN  IF ch >= 48 /\ ch <= 57 THEN ch - 48
        ELSE IF ch >= 65 /\ ch <= 90 THEN 10 + (ch - 65)
        ELSE 10 + 26

\* The glyph index render_glyph_5x7 computes for the char value c.
glyph_index(c) ==
    LET ch == IF c < 32 \/ c > 90 THEN 32 ELSE c
    IN  IF ch >= 48 /\ ch <= 57 THEN ch - 48
        ELSE IF ch >= 65 /\ ch <= 90 THEN 10 + (ch - 65)
        ELSE IF ch = 37 THEN 37
        ELSE IF ch = 58 THEN 38
        ELSE IF ch = 45 THEN 39
        ELSE IF ch = 33 THEN 40
        ELSE 36

\* Bit rx (from the left, 0..4) of a glyph row.
GlyphBit(row, rx) == (row \div (2 ^ (4 - rx))) % 2 = 1

\* The squares of a glyph whose first square is centred on
\* (start_x, start_y): one per bit that is on.
GlyphSquares(rs, glyph, start_x, start_y, pixel_size, half) ==
    UNION {render_rect(rs,
                       F32Add(start_x, F32Mul(F32FromInt(q[1]), pixel_size)),
                       F32Add(start_y, F32Mul(F32FromInt(q[2]), pixel_size)),
                       half, half) :
           q \in {q \in (0 .. 4) \X (0 .. 6) :
                    GlyphBit(glyph[q[2] + 1], q[1])}}

\* Renderer::render_glyph_5x7, for floats cx, cy and pixel_size.
render_glyph_5x7(rs, c, cx, cy, pixel_size) ==
    IF rs.height = 0 \/ rs.width = 0 THEN {}
    ELSE UNION {GlyphSquares(rs, FONT_5x7[glyph_index(c) + 1],
                             F32Add(F32Sub(cx, F32Mul(total_w, F32Half)),
                                    half),
                             F32Add(F32Sub(cy, F32Mul(total_h, F32Half)),
                                    half),
                             ps, half) :
                ps \in {pixel_size},
                total_w \in {F32Mul(F32Five, pixel_size)},
                total_h \in {F32Mul(F32Seven, pixel_size)},
                half \in {F32Mul(pixel_size, F32Half)}}

\* The glyphs of s from the one centred on start_x, a step apart.
TextGlyphs(rs, s, start_x, step, cy, pixel_size) ==
    UNION {render_glyph_5x7(rs, s[i],
                            F32Add(start_x, F32Mul(F32FromInt(i - 1), step)),
                            cy, pixel_size) : i \in 1 .. Len(s)}

\* Renderer::render_text, for floats cx, cy, pixel_size and spacing: the
\* glyphs of s side by side, centred on cx.
render_text(rs, s, cx, cy, pixel_size, spacing) ==
    IF s = <<>> THEN {}
    ELSE UNION {TextGlyphs(rs, s,
                           F32Add(F32Sub(cx, F32Mul(total, F32Half)),
                                  F32Mul(glyph_w, F32Half)),
                           F32Add(glyph_w, spacing), y, ps) :
                y \in {cy}, ps \in {pixel_size},
                glyph_w \in {F32Mul(F32Five, pixel_size)},
                total \in {F32Add(F32Mul(F32FromInt(Len(s)),
                                         F32Mul(F32Five, pixel_size)),
                                  F32Mul(F32FromInt(Len(s) - 1), spacing))}}

\* The stores of a drawing operation that fall outside the allocation
\* (all of them when memory is null).
Faults(rs, stores) ==
    IF rs.memory.null THEN stores
    ELSE {i \in stores : i < 0 \/ i >= rs.memory.size}

\* Mutant of WM_SIZE: a failed allocation leaves width and height set.
ResizeNoFailureReset(rs, new_width, new_height, ok) ==
    IF new_width <= 0 \/ new_height <= 0
    THEN [rs EXCEPT !.width = 0, !.height = 0]
    ELSE [memory |-> IF ok
                     THEN [null |-> FALSE, size |-> new_width * new_height]
                     ELSE [null |-> TRUE, size |-> 0],
          width |-> new_width, height |-> new_height]

\* WM_SIZE with a client area of new_width x new_height; ok is whether
\* VirtualAlloc succeeds.
Resize(rs, new_width, new_height, ok) ==
    IF new_width <= 0 \/ new_height <= 0
    THEN [rs EXCEPT !.width = 0, !.height = 0]
    ELSE IF ok
    THEN [memory |-> [null |-> FALSE, size |-> new_width * new_height],
          width |-> new_width, height |-> new_height]
    ELSE [memory |-> [null |-> TRUE, size |-> 0], width |-> 0, height |-> 0]

\* The condition under which an iteration of the main loop runs the game
\* (the tick) and presents the buffer.
TickRuns(rs) == ~rs.memory.null /\ rs.width > 0 /\ rs.height > 0

\* Window::destroy: the buffer is freed; width and height stay.
Destroy(rs) == [rs EXCEPT !.memory = [null |-> TRUE, size |-> 0]]

----------------------------------------------------------------------------
(* SpecRender: the window's buffer through WM_SIZE, WM_CLOSE and destroy,  *)
(* and the drawing operations of the renderer in every state of the        *)
(* buffer.  win.pc is the place of the main loop: "pump" while an          *)
(* iteration dispatches messages, "exited" once the loop condition has     *)
(* read running = false, "destroyed" after Window::destroy.  A drawing     *)
(* operation leaves the buffer's state as it is, so each state of the      *)
(* buffer is followed by one drawing operation.                            *)

MaxWidth == 3
MaxHeight == 2
MaxResizes == 2

\* Pixel coordinates, with the ends of i32.
XChoices == {I32Min, I32Max} \cup (-1 .. (MaxWidth + 1))
YPairs == {<<0, MaxHeight>>, <<-1, 1>>, <<1, I32Max>>, <<I32Min, 1>>,
           <<MaxHeight, MaxHeight + 1>>, <<1, 0>>}

\* Rectangles of render_rect, <<x, y, half_x, half_y>>, as float literals.
RectChoices ==
    {<<F32(r[1]), F32(r[2]), F32(r[3]), F32(r[4])>> :
     r \in {<<0, 0, 50 * U, 50 * U>>, <<-50 * U, 0, 25 * U, 100 * U>>,
            <<60 * U, 30 * U, 25 * U, 25 * U>>,
            <<0, 0, 2000 * U, 2000 * U>>,
            <<-900 * U, 700 * U, 10 * U, 10 * U>>,
            <<25 * U, -25 * U, 0, 0>>}}

\* Char values: signed (-128..127) and unsigned (0..255) char.
CharChoices == -128 .. 255

\* Glyph positions and sizes, <<cx, cy, pixel_size>>, as float literals.
GlyphPlaces ==
    {<<F32(g[1]), F32(g[2]), F32(g[3])>> :
     g \in {<<0, 0, 50 * U>>, <<-100 * U, 50 * U, 100 * U>>}}

\* The spacing of the texts drawn, 10.0f.
TextSpacing == F32(10 * U)

\* Texts, as char values: "", "A", "1:2", "a!", "GO!-%".
TextChoices == {<<>>, <<65>>, <<49, 58, 50>>, <<97, 33>>,
                <<71, 79, 33, 45, 37>>}

InitRender ==
    /\ p1 = PlayerBlank(FALSE)
    /\ p2 = PlayerBlank(TRUE)
    /\ ball = BallBlank
    /\ cfg = CfgDefault
    /\ burst = BurstBlank
    /\ flash = FlashBlank
    /\ win = [running |-> TRUE, render_state |-> RenderStateInit,
              pc |-> "pump"]
    /\ buttons = ButtonsInit
    /\ io = IoNone
    /\ obs = ObsNone
    /\ ticks = 0

RenderUnchanged == UNCHANGED <<p1, p2, ball, burst, flash, buttons, cfg, obs>>

\* WM_SIZE dispatched by the message pump, before or after a WM_CLOSE of
\* the same pump.  MaxResizes bounds the window messages.
ResizeStep ==
    /\ win.pc = "pump"
    /\ ticks < MaxResizes
    /\ \E w \in 0 .. MaxWidth, h \in 0 .. MaxHeight, ok \in BOOLEAN :
         /\ win' = [win EXCEPT !.render_state = Resize(@, w, h, ok)]
         /\ io' = [op |-> "resize", width |-> w, height |-> h, ok |-> ok]
    /\ ticks' = ticks + 1
    /\ RenderUnchanged

\* WM_CLOSE or WM_DESTROY dispatched by the message pump: running is
\* cleared and the iteration goes on.
CloseStep ==
    /\ win.pc = "pump"
    /\ win.running
    /\ ticks < MaxResizes
    /\ win' = WndProcClose(win)
    /\ io' = [op |-> "close"]
    /\ ticks' = ticks + 1
    /\ RenderUnchanged

\* The rest of an iteration of the main loop after the message pump: the
\* tick runs or is skipped, StretchDIBits presents the buffer, and the
\* loop goes on to the next pump or, with running false, ends.
FrameStep ==
    /\ win.pc = "pump"
    /\ io.op \in {"none", "resize", "close"}
    /\ io' = [op |-> "frame", ran |-> TickRuns(win.render_state),
              running |-> win.running]
    /\ win' = [win EXCEPT !.pc = IF win.running THEN "pump" ELSE "exited"]
    /\ UNCHANGED ticks
    /\ RenderUnchanged

\* Window::destroy after the loop of mainloop has ended.
DestroyStep ==
    /\ win.pc = "exited"
    /\ win' = [win EXCEPT !.render_state = Destroy(@), !.pc = "destroyed"]
    /\ io' = [op |-> "destroy"]
    /\ UNCHANGED ticks
    /\ RenderUnchanged

\* The operations that change the buffer (WM_CLOSE leaves it as WM_SIZE
\* made it).
BufferOps == {"none", "resize", "destroy"}

\* The record of a drawing operation: its stores and those that fault.
Drawn(op, args, idx, stores) ==
    [op |-> op, args |-> args, idx |-> idx, stores |-> stores,
     faults |-> Faults(win.render_state, stores)]

ClearScreenStep ==
    /\ io.op \in BufferOps
    /\ io' = Drawn("clear_screen", <<>>, -1, clear_screen(win.render_state))
    /\ UNCHANGED <<win, ticks>>
    /\ RenderUnchanged

RectPixelsStep ==
    /\ io.op \in BufferOps
    /\ \E x0 \in XChoices, x1 \in XChoices, yy \in YPairs :
         io' = Drawn("render_rect_pixels", <<x0, yy[1], x1, yy[2]>>, -1,
                     render_rect_pixels(win.render_state,
                                        x0, yy[1], x1, yy[2]))
    /\ UNCHANGED <<win, ticks>>
    /\ RenderUnchanged

RectStep ==
    /\ io.op \in BufferOps
    /\ \E r \in RectChoices :
         io' = Drawn("render_rect", r, -1,
                     render_rect(win.render_state, r[1], r[2], r[3], r[4]))
    /\ UNCHANGED <<win, ticks>>
    /\ RenderUnchanged

\* idx is the glyph index computed, -1 when the operation returns before.
GlyphStep ==
    /\ io.op \in BufferOps
    /\ \E c \in CharChoices, g \in GlyphPlaces :
         io' = Drawn("render_glyph_5x7", <<c, g[1], g[2], g[3]>>,
                     IF win.render_state.height = 0
                        \/ win.render_state.width = 0
                     THEN -1 ELSE glyph_index(c),
                     render_glyph_5x7(win.render_state, c, g[1], g[2], g[3]))
    /\ UNCHANGED <<win, ticks>>
    /\ RenderUnchanged

TextStep ==
    /\ io.op \in BufferOps
    /\ \E s \in TextChoices, g \in GlyphPlaces :
         io' = Drawn("render_text", <<s, g[1], g[2], g[3], TextSpacing>>, -1,
                     render_text(win.render_state, s, g[1], g[2], g[3],
                                 TextSpacing))
    /\ UNCHANGED <<win, ticks>>
    /\ RenderUnchanged

NextRender ==
    \/ ResizeStep
    \/ CloseStep
    \/ DestroyStep
    \/ ClearScreenStep
    \/ RectPixelsStep
    \/ RectStep
    \/ GlyphStep
    \/ TextStep
    \/ FrameStep

SpecRender == InitRender /\ [][NextRender]_vars

----------------------------------------------------------------------------
(* SpecInput: the key state across iterations of the main loop.  Each step *)
(* is the start of one iteration: the changed flags are cleared and the    *)
(* key messages of the frame are pumped.  A WM_KEYDOWN arrives when a key  *)
(* goes down and again, as auto-repeat, while it is held; a WM_KEYUP       *)
(* arrives for a key that is down.                                         *)

MaxPumps == 3
MaxMessages == 2

InputKeys == {"ENTER", "ESC"}

\* evs is a sequence of key messages the keyboard can send from btn.
RECURSIVE ValidMessages(_, _)
ValidMessages(btn, evs) ==
    IF Len(evs) = 0 THEN TRUE
    ELSE /\ (~Head(evs).down => btn[Head(evs).key].is_down)
         /\ ValidMessages(process_button(btn, Head(evs).key, Head(evs).down),
                          Tail(evs))

MessageChoices ==
    UNION {[1..n -> [key : InputKeys, down : BOOLEAN]] : n \in 0..MaxMessages}

InitInput ==
    /\ p1 = PlayerBlank(FALSE)
    /\ p2 = PlayerBlank(TRUE)
    /\ ball = BallBlank
    /\ burst = BurstBlank
    /\ flash = FlashBlank
    /\ cfg = CfgDefault
    /\ win = [running |-> TRUE]
    /\ buttons = ButtonsInit
    /\ io = IoNone
    /\ obs = ObsNone
    /\ ticks = 0

\* The start of one iteration of the main loop, up to the end of the
\* message pump.
PumpStep ==
    /\ ticks < MaxPumps
    /\ \E evs \in MessageChoices :
         /\ ValidMessages(buttons, evs)
         /\ buttons' = PumpMessages(ClearChanged(buttons), evs)
         /\ obs' = [op |-> "pump", pre |-> buttons, evs |-> evs]
    /\ ticks' = ticks + 1
    /\ UNCHANGED <<p1, p2, ball, burst, flash, win, cfg, io>>

SpecInput == InitInput /\ [][PumpStep]_vars

----------------------------------------------------------------------------
(* SpecNav: the three selection lists (main menu, Settings, pause overlay) *)
(* under the navigation keys.  Init is the program after construction, in  *)
(* the main menu, or a match in play with the pause overlay open; each     *)
(* step is one iteration of the main loop in one of the three screens.     *)

NavStarts ==
    {[p1 |-> PlayerBlank(FALSE), p2 |-> PlayerBlank(TRUE),
      ball |-> BallBlank, burst |-> BurstBlank, flash |-> FlashBlank,
      win |-> WinInit(CfgDefault), cfg |-> CfgDefault, cues |-> <<>>,
      banner |-> "none"],
     [InPlay(FirstMatch(CfgDefault), 40, 0) EXCEPT !.win.confirm_modal = TRUE]}

InitNav ==
    /\ \E g \in NavStarts :
         /\ p1 = g.p1
         /\ p2 = g.p2
         /\ ball = g.ball
         /\ burst = g.burst
         /\ flash = g.flash
         /\ cfg = g.cfg
         /\ win = g.win
    /\ buttons = ButtonsInit
    /\ io = IoNone
    /\ obs = [op |-> "none"]
    /\ ticks = 0

OverlayKeys == Branch(win) = "overlay" /\ KeysTick

NextNav ==
    \/ MenuKeys
    \/ SettingsKeys
    \/ OverlayKeys

SpecNav == InitNav /\ [][NextNav]_vars

----------------------------------------------------------------------------
(* Claims checked under SpecPlayer                                         *)

UpdatedPaddle == IF obs.who = 1 THEN p1 ELSE p2

\* C1: after every Player::update (controller.update, then add_collision),
\* for every dt >= 0, requested acceleration and prior paddle state, the
\* paddle's pos.y lies in [-50 + height, 50 - height].
C1_PaddleStaysInField ==
    obs.op = "player_update" =>
        /\ UpdatedPaddle.y >= -50 * U + UpdatedPaddle.height
        /\ UpdatedPaddle.y <= 50 * U - UpdatedPaddle.height

\* C1 witness: an update whose integration left the field at the top and one
\* that left it at the bottom were both clamped back to the wall.
C1_Witness ==
    /\ obs.op = "player_update"
    /\ obs.mid.y - obs.pre.height < -50 * U
    /\ UpdatedPaddle.y = -50 * U + UpdatedPaddle.height
    /\ obs.dt > 0

----------------------------------------------------------------------------
(* Claims checked under SpecBall                                           *)

\* C2: the x velocity written by a paddle collision (-vel.x + 0.0001) is
\* never exactly zero, whatever the velocity before the collision.
C2_BounceNeverStalls ==
    (obs.op = "ball_update" /\ obs.hits # {}) => ball.vx # 0

\* C3: one BallController::update registers at most one goal: it calls
\* increment_score at most once, so never for both players, and the winner
\* it leaves is the player whose score it raised.
C3_OneGoalPerUpdate ==
    obs.op = "ball_update" =>
        /\ obs.inc1 + obs.inc2 <= 1
        /\ p1.score = obs.pre_s1 + obs.inc1
        /\ p2.score = obs.pre_s2 + obs.inc2
        /\ (obs.inc1 = 1 => ball.winner = 1)
        /\ (obs.inc2 = 1 => ball.winner = 2)
        /\ (ball.winner # obs.pre.winner => obs.inc1 + obs.inc2 = 1)

\* C3 witness: an update that registered a goal for player 1.
C3_Witness ==
    /\ obs.op = "ball_update"
    /\ obs.inc1 = 1
    /\ ball.winner = 1
    /\ ~obs.pre.scored

\* C4: when the integrated position has pos.x + size > 80 the update sets
\* scored, winner = 1, pos.x = 80 + size and raises player 1's score by one
\* (player 2's unchanged); symmetrically at -80 for player 2.  A ball at
\* (79.5, 0) with velocity (50, 0) ends the tick scored, winner 1, x = 81.2.
C4_GoalOutcome ==
    (obs.op = "ball_update" /\ obs.moved) =>
        /\ (obs.mid.x + BallSize > GOAL =>
              /\ ball.scored /\ ball.winner = 1
              /\ ball.x = GOAL + BallSize
              /\ p1.score = obs.pre_s1 + 1
              /\ p2.score = obs.pre_s2)
        /\ (obs.mid.x - BallSize < -GOAL =>
              /\ ball.scored /\ ball.winner = 2
              /\ ball.x = -GOAL - BallSize
              /\ p2.score = obs.pre_s2 + 1
              /\ p1.score = obs.pre_s1)
        /\ ((obs.pre.x = (795 * U) \div 10 /\ obs.pre.y = 0
             /\ obs.pre.vx = 50 * U /\ obs.pre.vy = 0) =>
              /\ ball.scored /\ ball.winner = 1
              /\ ball.x = (812 * U) \div 10)

\* C4 witness: the end-to-end scenario has run with a positive dt.
C4_Witness ==
    /\ obs.op = "ball_update"
    /\ obs.pre.x = (795 * U) \div 10 /\ obs.pre.y = 0
    /\ obs.pre.vx = 50 * U /\ obs.pre.vy = 0
    /\ ~obs.pre.scored
    /\ obs.dt > 0
    /\ ball.x = (812 * U) \div 10
    /\ p1.score = 1

\* C5: once scored is true BallController::update changes nothing: the
\* ball's position, velocity, winner and both scores stay as they were.
C5_FrozenOnceScored ==
    (obs.op = "ball_update" /\ obs.pre.scored) =>
        /\ ball = obs.pre
        /\ p1.score = obs.pre_s1
        /\ p2.score = obs.pre_s2

\* C5 witness: an update with dt > 0 of a scored ball that still has speed.
C5_Witness ==
    /\ obs.op = "ball_update"
    /\ obs.pre.scored
    /\ obs.dt > 0
    /\ obs.pre.vx # 0
    /\ ball.scored

----------------------------------------------------------------------------
(* Claims checked under SpecPlayer (the AI driver)                         *)

SameHalf(px, bx) == (px > 0 /\ bx > 0) \/ (px < 0 /\ bx < 0)

\* C6: at every difficulty run_ai_mode requests no acceleration unless the
\* ball's x and the paddle's x are both strictly positive or both strictly
\* negative: a paddle at x = -70 does not react to a ball at x = +5, and a
\* ball at x = 0 engages neither paddle.
C6_OppositeHalfRule ==
    (obs.op = "player_update" /\ obs.pre.ai_mode) =>
        /\ (~SameHalf(obs.pre.x, ball.x) => obs.ddp = 0)
        /\ (obs.pre.x = -70 * U /\ ball.x = 5 * U => obs.ddp = 0)
        /\ (ball.x = 0 => obs.ddp = 0)

\* C6 witness: the AI paddle at x = -70 was updated with the ball at x = +5
\* and more than the dead zone away vertically, and asked for nothing.
C6_Witness ==
    /\ obs.op = "player_update"
    /\ obs.pre.ai_mode
    /\ obs.pre.x = -70 * U
    /\ ball.x = 5 * U
    /\ Abs(ball.y - obs.pre.y) > 5 * U
    /\ obs.ddp = 0

\* C12: an AI difficulty index above 4 is treated as Unbeatable: the update
\* of an AI paddle under such an index leaves the paddle exactly where the
\* same update at Unbeatable would leave it.
C12_InvalidIsNearestTier ==
    (obs.op = "player_update" /\ obs.pre.ai_mode
     /\ cfg.ai_difficulty > Unbeatable)
        => UpdatedPaddle =
               PlayerUpdate(obs.pre, obs.dt, [x |-> ball.x, y |-> ball.y],
                            [x |-> ball.vx, y |-> ball.vy], Unbeatable,
                            buttons, [frac |-> 0, mistake |-> FALSE])

\* C29: the acceleration run_ai_mode requests in one Player::update is
\* -ddp_speed, 0 or +ddp_speed at every difficulty, the set that
\* handle_input produces for a human.
C29_AiOneUnit ==
    obs.op = "player_update" =>
        obs.ddp \in {-obs.pre.ddp_speed, 0, obs.pre.ddp_speed}

\* The ball the paddle of the last Player::update looked at.
SeenBallPos == [x |-> ball.x, y |-> ball.y]
SeenBallVel == [x |-> ball.vx, y |-> ball.vy]

\* The predictor's condition for the paddle p: the ball is fast in y,
\* moves in x towards the side of p, and needs a positive time to reach
\* the x of p.
PredictorTriggers(p) ==
    /\ Abs(ball.vy) > 100 * U
    /\ Abs(ball.vx) > 1
    /\ (p.x >= 0 /\ ball.vx > 0) \/ (p.x < 0 /\ ball.vx < 0)
    /\ (p.x - ball.x) * Sgn(ball.vx) > 0

\* The target the claim gives for Unbeatable.
UnbeatableTarget(p) ==
    IF PredictorTriggers(p)
    THEN Fold(ball.y + MulDiv(ball.vy, p.x - ball.x, ball.vx)) + 10 * U
    ELSE ball.y

\* C30: in a Player::update of an AI paddle at Unbeatable the target is
\* the folded projected y plus exactly 10 when the predictor triggers and
\* the ball's current y otherwise, whatever rand() returns, and the
\* acceleration requested is the same for every outcome of rand().
C30_UnbeatableDeterministic ==
    (obs.op = "player_update" /\ obs.pre.ai_mode
     /\ cfg.ai_difficulty = Unbeatable) =>
        \A rnd \in RndChoices :
            /\ predict_ball(SeenBallVel, SeenBallPos, obs.pre.x, ball.y,
                            3, rnd) = UnbeatableTarget(obs.pre)
            /\ run_ai_mode(obs.pre, SeenBallPos, SeenBallVel, Unbeatable,
                           rnd) = obs.ddp

\* Player 2 at Unbeatable with the predictor triggered: the target is not
\* the ball's y and the paddle is driven.
C30_Witness ==
    /\ obs.op = "player_update" /\ obs.pre.ai_mode /\ obs.who = 2
    /\ cfg.ai_difficulty = Unbeatable
    /\ PredictorTriggers(obs.pre)
    /\ UnbeatableTarget(obs.pre) # ball.y
    /\ obs.ddp # 0

----------------------------------------------------------------------------
(* Claims checked under SpecFold                                           *)

\* C7: the fold maps every projected y, positive or negative, into
\* [-50, 50], is the identity on [-50, 50] and has period 200; it maps 60
\* to 40 and 150 to -50.
C7_FoldIsTriangleWave ==
    io.op = "fold" =>
        /\ io.out >= BOTTOM /\ io.out <= TOP
        /\ (io.y >= BOTTOM /\ io.y <= TOP => io.out = io.y)
        /\ io.out_next = io.out
        /\ (io.y = 60 * U => io.out = 40 * U)
        /\ (io.y = 150 * U => io.out = -50 * U)

\* C7 witness: a projected y below the field by more than a period was
\* folded back into the field.
C7_Witness ==
    /\ io.op = "fold"
    /\ io.y = -265 * U
    /\ io.out = -35 * U

\* C8 as stated: the fold maps a projected y of 130 to 30.
C8_Fold130Is30 ==
    (io.op = "fold" /\ io.y = 130 * U) => io.out = 30 * U

\* C8 as amended: the fold maps a projected y of 130 to -30 (shifted 180,
\* past the span by 80, so 80 below TOP).
C8_Fold130IsMinus30 ==
    (io.op = "fold" /\ io.y = 130 * U) => io.out = -30 * U

\* C8 witness: 130 has been folded.
C8_Witness ==
    /\ io.op = "fold"
    /\ io.y = 130 * U
    /\ io.out = -30 * U

----------------------------------------------------------------------------
(* Claims checked under SpecBurst                                          *)

\* The largest element of a non-empty sequence of numbers.
SeqMax(q) ==
    LET elems == {q[i] : i \in 1..Len(q)}
    IN  CHOOSE m \in elems : \A e \in elems : e <= m

\* The lives left of the particles started with lives q0 once the update
\* calls have accumulated t: those still positive, in order.
LivesLeft(q0, t) ==
    LET aged == [i \in 1..Len(q0) |-> q0[i] - t]
        Positive(l) == l > 0
    IN  SelectSeq(aged, Positive)

\* C10: a burst started with count = 80 and lifetime = 1.0 has 80 particles
\* with lives in [0.5, 1.0] and is not finished right after start; it is
\* finished after update calls whose accumulated dt exceeds the largest
\* life; and a particle is removed in the first update in which its life
\* becomes <= 0 (the particles left are exactly those whose life exceeds the
\* accumulated dt).
C10_BurstLifeCycle ==
    /\ obs.op = "burst_start" =>
          /\ ~BurstFinished(burst)
          /\ Len(burst.particles) = 80
          /\ \A i \in 1..Len(burst.particles) :
                /\ 2 * burst.particles[i] >= BurstLifetime
                /\ burst.particles[i] <= BurstLifetime
    /\ (obs.op = "burst_update" /\ obs.lives0 # <<>>) =>
          /\ (obs.elapsed > SeqMax(obs.lives0) => BurstFinished(burst))
          /\ burst.particles = LivesLeft(obs.lives0, obs.elapsed)

\* C10 witness: an update in which some particles reach a life of exactly 0
\* and are removed while another particle lives on.
C10_Witness ==
    /\ obs.op = "burst_update"
    /\ Len(obs.lives0) = 80
    /\ burst.particles # <<>>
    /\ Len(burst.particles) < Len(obs.pre.particles)
    /\ \E i \in 1..Len(obs.pre.particles) : obs.pre.particles[i] = obs.dt
    /\ ~BurstFinished(burst)

----------------------------------------------------------------------------
(* Claims checked under Spec                                               *)

\* C9: in every reachable state ParticleBurst::finished() is true if and
\* only if the particle collection is empty: after start, after every
\* update, and after the Restart and Main Menu actions of the pause
\* overlay, which clear the active flag directly.
C9_FinishedIffEmpty ==
    BurstFinished(burst) <=> (burst.particles = <<>>)

----------------------------------------------------------------------------
(* Claims checked under SpecSettings                                       *)

BallSpeedInRange(v) == U \div 2 <= v /\ v <= 3 * U
DifficultyInRange(d) == Easy <= d /\ d <= Unbeatable

SettingsInRange(w, c) ==
    /\ BallSpeedInRange(w.s_ball_speed)
    /\ BallSpeedInRange(c.ball_speed)
    /\ DifficultyInRange(w.s_ai_difficulty)
    /\ DifficultyInRange(c.ai_difficulty)

\* C11: no iteration of the Settings screen (row change, LEFT_ARROW or
\* RIGHT_ARROW adjustment, Enter) takes the ball speed out of [0.5, 3.0] or
\* the AI difficulty out of [0, 4]: if the working copies of the screen and
\* the values of the game configuration are in range before the iteration,
\* all four are in range after it.
C11_SettingsStayInRange ==
    (obs.op = "tick" /\ obs.branch = "settings"
     /\ SettingsInRange(obs.pre.win, obs.pre.cfg))
        => SettingsInRange(win, cfg)

\* RIGHT_ARROW on the BALL SPEED row at 3.0 leaves 3.0, in the working copy
\* and in the configuration.
C11_Witness ==
    /\ obs.op = "tick" /\ obs.branch = "settings"
    /\ SettingsInRange(obs.pre.win, obs.pre.cfg)
    /\ obs.pre.win.settings_index = 0
    /\ is_pressed(buttons, "RIGHT_ARROW")
    /\ obs.pre.win.s_ball_speed = 3 * U
    /\ win.s_ball_speed = 3 * U
    /\ cfg.ball_speed = 3 * U

----------------------------------------------------------------------------
(* Claims checked under SpecMatch                                          *)

\* The number of cues of the last tick that are among names.
CueCount(names) ==
    Cardinality({i \in DOMAIN obs.cues : obs.cues[i] \in names})

\* The last tick ran the Restart or the Main Menu action of the pause
\* overlay (button.mp3 is played in MENU_PLAYING by the overlay's actions
\* only; the selected row is not changed by them).
PauseLeftMatch == CueCount({"button"}) > 0 /\ win.paused_index \in {1, 2}

CountdownTick == obs.op = "tick" /\ obs.branch = "countdown"

\* The last tick was a countdown tick whose accumulated countdown_time
\* reached 0.35, and no Restart or Main Menu action ran in it.
CountdownThresholdTick ==
    /\ CountdownTick
    /\ obs.pre.win.countdown_time + obs.dt >= 35
    /\ ~PauseLeftMatch

\* C13 as stated: every countdown tick whose accumulated countdown_time
\* reaches 0.35 lowers countdown_value by exactly 1, resets the accumulator
\* to 0 and triggers exactly one countdown cue (read here for the ticks in
\* which no Restart or Main Menu action runs; it fails on those already).
C13_OneCueEveryStep ==
    CountdownThresholdTick =>
        /\ win.countdown_value = obs.pre.win.countdown_value - 1
        /\ win.countdown_time = 0
        /\ CueCount({"countdown_tick", "go_tick"}) = 1

\* C13 amended: every countdown tick in which the pause overlay's Restart
\* or Main Menu action does not run and whose accumulated countdown_time
\* reaches 0.35 lowers countdown_value by exactly 1, whatever dt is, and
\* resets the accumulator to 0; it triggers exactly one cue while the new
\* value is at least 0 (countdown-tick above 0, go-tick at 0) and none on
\* the step from 0 to -1 that ends the countdown.  Such a tick below the
\* threshold only accumulates.  A countdown tick in which Restart runs ends
\* with countdown_value 3 and the accumulator 0, whatever the countdown
\* branch did before.  Two ticks at dt = 0.4 from 3 give 1 with one
\* countdown-tick cue each.
C13_CountdownStep ==
    /\ CountdownThresholdTick =>
         /\ win.countdown_value = obs.pre.win.countdown_value - 1
         /\ win.countdown_time = 0
         /\ CueCount({"countdown_tick"}) =
                (IF win.countdown_value > 0 THEN 1 ELSE 0)
         /\ CueCount({"go_tick"}) =
                (IF win.countdown_value = 0 THEN 1 ELSE 0)
    /\ (CountdownTick /\ ~PauseLeftMatch
        /\ obs.pre.win.countdown_time + obs.dt < 35) =>
         /\ win.countdown_value = obs.pre.win.countdown_value
         /\ win.countdown_time = obs.pre.win.countdown_time + obs.dt
         /\ CueCount({"countdown_tick", "go_tick"}) = 0
    /\ (CountdownTick /\ PauseLeftMatch /\ win.paused_index = 1) =>
         /\ win.in_countdown
         /\ win.countdown_value = 3
         /\ win.countdown_time = 0
    /\ (Branch(win) = "countdown" /\ win.countdown_value = 3
        /\ win.countdown_time = 0) =>
         LET g0 == [p1 |-> p1, p2 |-> p2, ball |-> ball, burst |-> burst,
                    flash |-> flash, win |-> win, cfg |-> cfg,
                    cues |-> <<>>, banner |-> "none"]
             g2 == CountdownBranch(CountdownBranch(g0, 40), 40)
         IN  /\ g2.win.countdown_value = 1
             /\ g2.cues = <<"countdown_tick", "countdown_tick">>

\* The second of two countdown ticks from 3, at dt = 0.4: the value went
\* from 2 to 1 with one countdown-tick cue.
C13_Witness ==
    /\ CountdownThresholdTick
    /\ ticks = 2
    /\ obs.dt = 40
    /\ obs.pre.win.countdown_value = 2
    /\ win.countdown_value = 1
    /\ obs.cues = <<"countdown_tick">>

\* Position and velocity of both paddles, both scores and the ball are as
\* before the last tick.
PhysicsUnchanged ==
    /\ ball = obs.pre.ball
    /\ p1.y = obs.pre.p1.y /\ p1.dp = obs.pre.p1.dp
    /\ p2.y = obs.pre.p2.y /\ p2.dp = obs.pre.p2.dp
    /\ p1.score = obs.pre.p1.score
    /\ p2.score = obs.pre.p2.score

\* C14 as stated: every countdown tick leaves the ball, both paddles, both
\* scores and the match clock game_time_elapsed unchanged.
C14_CountdownChangesNothing ==
    CountdownTick =>
        /\ PhysicsUnchanged
        /\ win.game_time_elapsed = obs.pre.win.game_time_elapsed

\* C14 amended: a countdown tick in which the pause overlay's Restart or
\* Main Menu action does not run leaves the ball, both paddles and both
\* scores unchanged, and leaves the match clock unchanged unless it is the
\* tick that ends the countdown, which sets the clock to 0.
C14_CountdownBlocksPhysics ==
    (CountdownTick /\ ~PauseLeftMatch) =>
        /\ PhysicsUnchanged
        /\ win.game_time_elapsed =
               (IF win.in_countdown THEN obs.pre.win.game_time_elapsed
                ELSE 0)

\* A countdown tick of 0.4 s with the down key of player 1 held: nothing
\* moved.
C14_Witness ==
    /\ CountdownTick /\ ~PauseLeftMatch
    /\ obs.dt = 40
    /\ is_down(buttons, "DOWN")
    /\ win.in_countdown
    /\ PhysicsUnchanged

\* What the playing sub-state of the last tick made of the paddles and the
\* ball of the state before it (Player::update twice, then ball.update).
PlayedPaddle(q) ==
    PlayerUpdate(q, obs.dt, [x |-> obs.pre.ball.x, y |-> obs.pre.ball.y],
                 [x |-> obs.pre.ball.vx, y |-> obs.pre.ball.vy],
                 obs.pre.cfg.ai_difficulty, buttons, RndUnused)

PlayedBall ==
    BallUpdate(obs.pre.ball, PlayedPaddle(obs.pre.p1),
               PlayedPaddle(obs.pre.p2), obs.dt).b

\* The last tick was a Playing tick in which ball.scored became true while
\* time was not up.
GoalTick ==
    /\ obs.op = "tick" /\ obs.branch = "playing"
    /\ ~obs.pre.win.time_up_state
    /\ ~win.time_up_state
    /\ ~obs.pre.ball.scored
    /\ PlayedBall.scored

\* The celebration has just been started at the scoring position and
\* nothing was reset.
CelebrationStarted ==
    /\ win.in_celebration
    /\ burst.active
    /\ Len(burst.particles) = BurstCount
    /\ burst.x = PlayedBall.x /\ burst.y = PlayedBall.y
    /\ flash.active /\ flash.alpha = U
    /\ ball = PlayedBall
    /\ p1.y = PlayedPaddle(obs.pre.p1).y
    /\ p1.dp = PlayedPaddle(obs.pre.p1).dp
    /\ p2.y = PlayedPaddle(obs.pre.p2).y
    /\ p2.dp = PlayedPaddle(obs.pre.p2).dp

\* C15 as stated: on every Playing tick in which ball.scored becomes true
\* and time is not up, the game enters Celebration, the burst starts at the
\* ball's scoring position, the flash starts with alpha 1, and neither the
\* ball nor the paddles are reset.
C15_GoalStartsCelebration == GoalTick => CelebrationStarted

\* C15 amended: the same, on the Playing ticks in which the Restart or Main
\* Menu action of the pause overlay does not run (Esc and Enter in the same
\* frame with that row selected).
C15_GoalStartsCelebrationUnlessLeft ==
    (GoalTick /\ ~PauseLeftMatch) => CelebrationStarted

\* A goal on a Playing tick: the ball stays at the goal line, scored, and
\* the celebration has begun.
C15_Witness ==
    /\ GoalTick /\ ~PauseLeftMatch
    /\ CelebrationStarted
    /\ ball.scored /\ ball.winner # 0
    /\ Abs(ball.x) > 70 * U

CelebrationTick == obs.op = "tick" /\ obs.branch = "celebration"

\* C16: a Celebration tick after which the effects have not both finished
\* (and in which no Restart or Main Menu action ran) leaves the ball, both
\* paddles' position and velocity, both scores and the match clock
\* unchanged.
C16_CelebrationOnlyEffects ==
    (CelebrationTick /\ win.in_celebration /\ ~PauseLeftMatch) =>
        /\ PhysicsUnchanged
        /\ win.game_time_elapsed = obs.pre.win.game_time_elapsed

\* The last tick was the Celebration tick in which both effects finished.
CelebrationEndTick ==
    /\ CelebrationTick
    /\ ~PauseLeftMatch
    /\ ~win.in_celebration

\* C17: at the end of the Celebration tick in which flash and burst are
\* both finished, the ball is at (0, 0) with vel.y = 0, scored = false and
\* winner = 0, and both paddles are at y = 0 with zero velocity, whatever
\* keys are held during that tick.
C17_CelebrationEndResets ==
    CelebrationEndTick =>
        /\ ball.x = 0 /\ ball.y = 0 /\ ball.vy = 0
        /\ ~ball.scored /\ ball.winner = 0
        /\ p1.y = 0 /\ p1.dp = 0
        /\ p2.y = 0 /\ p2.dp = 0

PlayingTick == obs.op = "tick" /\ obs.branch = "playing"

\* Time-up is entered exactly on the Playing ticks that take the running
\* match clock to the configured duration or beyond, and on no other tick.
TimeUpEntry ==
    (obs.op = "tick" /\ ~obs.pre.win.time_up_state) =>
        (win.time_up_state <=>
            /\ obs.branch = "playing"
            /\ obs.pre.win.game_timer_active
            /\ obs.pre.win.game_time_elapsed + obs.dt
                   >= obs.pre.cfg.game_duration_secs * CS)

\* The last tick began with time_up_state true.
TimeUpTick == obs.op = "tick" /\ obs.pre.win.time_up_state

\* C18 as stated: time-up is entered on the first Playing tick on which
\* game_time_elapsed reaches the configured duration, and no tick that
\* begins with time_up_state true changes the ball, the paddles or a score.
C18_TimeUpFreezes ==
    /\ TimeUpEntry
    /\ TimeUpTick => PhysicsUnchanged

\* C18 amended: the same, except that a tick in which the Restart or Main
\* Menu action of the pause overlay runs resets ball, paddles and (Restart)
\* scores although time_up_state is true.
C18_TimeUpFreezesUnlessLeft ==
    /\ TimeUpEntry
    /\ (TimeUpTick /\ ~PauseLeftMatch) => PhysicsUnchanged

\* A time-up tick of positive dt with the ball in flight and player 1's
\* down key held: neither moved; an earlier tick had entered time-up.
C18_Witness ==
    /\ TimeUpTick /\ PlayingTick /\ ~PauseLeftMatch
    /\ obs.dt > 0
    /\ ~ball.scored /\ ball.x # 0
    /\ is_down(buttons, "DOWN")
    /\ obs.pre.win.game_time_elapsed >= obs.pre.cfg.game_duration_secs * CS
    /\ PhysicsUnchanged

\* The scores when the last tick drew the time-up banner: those before the
\* tick, plus the goal of this tick's ball.update if the tick began with
\* the time not up.
ScoresAtBanner ==
    LET r == BallUpdate(obs.pre.ball, PlayedPaddle(obs.pre.p1),
                        PlayedPaddle(obs.pre.p2), obs.dt)
    IN  IF obs.pre.win.time_up_state
        THEN <<obs.pre.p1.score, obs.pre.p2.score>>
        ELSE <<obs.pre.p1.score + r.inc1, obs.pre.p2.score + r.inc2>>

\* The last tick was a Playing tick that began in time-up or entered it.
BannerTick ==
    /\ PlayingTick
    /\ \/ obs.pre.win.time_up_state
       \/ /\ obs.pre.win.game_timer_active
          /\ obs.pre.win.game_time_elapsed + obs.dt
                 >= obs.pre.cfg.game_duration_secs * CS

\* C19: every tick of the playing sub-state in which the time is up draws
\* the banner, and only those; the banner names player 1 if score1 > score2,
\* player 2 if score2 > score1 and a draw exactly when the scores are equal,
\* where a goal of the tick on which the time expires is already counted.
C19_BannerNamesLeader ==
    obs.op = "tick" =>
        /\ BannerTick <=> (obs.banner # "none")
        /\ BannerTick =>
             /\ (obs.banner = "PLAYER 1 WINS!") <=>
                    (ScoresAtBanner[1] > ScoresAtBanner[2])
             /\ (obs.banner = "PLAYER 2 WINS!") <=>
                    (ScoresAtBanner[2] > ScoresAtBanner[1])
             /\ (obs.banner = "DRAW!") <=>
                    (ScoresAtBanner[1] = ScoresAtBanner[2])

\* The time expires on the tick of the first goal, scored by player 2: the
\* banner of that tick names player 2.
C19_Witness ==
    /\ BannerTick
    /\ ~obs.pre.win.time_up_state
    /\ obs.pre.p1.score = 0 /\ obs.pre.p2.score = 0
    /\ ~obs.pre.ball.scored
    /\ PlayedBall.scored
    /\ ScoresAtBanner = <<0, 1>>
    /\ obs.banner = "PLAYER 2 WINS!"

\* The time-up delay accumulated by the end of the last tick, a time-up
\* tick: the tick that enters time-up starts it at 0 and adds its own dt.
DelayReached ==
    (IF obs.pre.win.time_up_state THEN obs.pre.win.time_up_delay ELSE 0)
        + obs.dt

\* C20: on a time-up tick with the pause overlay closed (the Playing branch
\* runs and Esc is not pressed), the game returns to the main menu, with
\* time_up_state cleared, if the accumulated time-up delay has reached 2.5 s
\* on this tick; otherwise it stays in time-up and the delay has grown by
\* dt.  So with positive dt the return comes on the first tick at which the
\* delay reaches 2.5 s and never earlier.
C20_ReturnAfterDelay ==
    (BannerTick /\ ~is_pressed(buttons, "ESC")) =>
        IF DelayReached >= 250
        THEN win.menu_state = "MENU_MAIN" /\ ~win.time_up_state
        ELSE /\ win.menu_state = "MENU_PLAYING"
             /\ win.time_up_state
             /\ win.time_up_delay = DelayReached

\* The tick on which the delay passes 2.5 s: the game is back in the menu.
C20_Witness ==
    /\ BannerTick /\ ~is_pressed(buttons, "ESC")
    /\ obs.pre.win.time_up_state
    /\ obs.dt > 0
    /\ obs.pre.win.time_up_delay < 250
    /\ DelayReached >= 250
    /\ win.menu_state = "MENU_MAIN"
    /\ ~win.time_up_state

\* The last tick ran the Restart action of the pause overlay
\* (button_back.mp3 is played in MENU_PLAYING by Restart only).
RestartTick ==
    /\ obs.op = "tick"
    /\ obs.branch \in {"countdown", "celebration", "overlay", "playing"}
    /\ CueCount({"button_back"}) > 0

\* C21: at the end of a tick in which Restart of the pause overlay ran,
\* whatever sub-state the tick began in, both scores are 0, the countdown
\* runs from 3 with countdown_time 0, the match clock is 0, in_celebration
\* and confirm_modal are false, the ball is at the centre and unscored, and
\* both paddles are at y = 0 with zero velocity.
C21_RestartResets ==
    RestartTick =>
        /\ p1.score = 0 /\ p2.score = 0
        /\ win.menu_state = "MENU_PLAYING"
        /\ win.in_countdown
        /\ win.countdown_value = 3 /\ win.countdown_time = 0
        /\ win.game_time_elapsed = 0
        /\ ~win.in_celebration /\ ~win.confirm_modal
        /\ ball.x = 0 /\ ball.y = 0 /\ ~ball.scored /\ ball.winner = 0
        /\ p1.y = 0 /\ p1.dp = 0
        /\ p2.y = 0 /\ p2.dp = 0

\* Restart during a celebration, after a goal: the score went back to 0.
C21_Witness ==
    /\ RestartTick
    /\ obs.branch = "celebration"
    /\ obs.pre.p1.score + obs.pre.p2.score > 0
    /\ obs.pre.ball.scored
    /\ p1.score = 0 /\ p2.score = 0
    /\ win.in_countdown

\* The last tick ran the Main Menu action of the pause overlay.
MainMenuTick ==
    /\ obs.op = "tick"
    /\ obs.branch \in {"countdown", "celebration", "overlay", "playing"}
    /\ CueCount({"button"}) > 0
    /\ win.menu_state = "MENU_MAIN"

\* The game state the current state is, as the main loop sees it.
CurrentGame ==
    [p1 |-> p1, p2 |-> p2, ball |-> ball, burst |-> burst, flash |-> flash,
     win |-> win, cfg |-> cfg, cues |-> <<>>, banner |-> "none"]

\* n iterations of the main loop from g with frame time dt and no key.
RECURSIVE QuietTicks(_, _, _)
QuietTicks(g, dt, n) ==
    IF n = 0 THEN g
    ELSE QuietTicks(MainloopTick([g EXCEPT !.cues = <<>>], dt,
                                 ClearChanged(ButtonsInit),
                                 RndUnused, DrawLongest),
                    dt, n - 1)

\* How a match started from g begins: the sub-state after the four
\* countdown thresholds and the ball after the first tick that follows.
MatchBeginning(g) ==
    LET c == QuietTicks(g, CS, 4)
        s == QuietTicks(c, 0, 1)
    IN  [value |-> g.win.countdown_value, sub |-> SubState(c.win),
         vx |-> s.ball.vx, vy |-> s.ball.vy, x |-> s.ball.x, y |-> s.ball.y]

\* No match sub-state is left.
NoSubStateSurvives ==
    /\ ~win.in_countdown
    /\ ~win.in_celebration
    /\ ~win.time_up_state
    /\ ~win.confirm_modal
    /\ ~burst.active
    /\ ~flash.active

\* The match that Enter on the first menu item starts now begins like the
\* first match with the same configuration.
NextMatchLikeFirst ==
    /\ MatchBeginning(StartMatch(CurrentGame, TRUE))
         = MatchBeginning(FirstMatch(cfg))
    /\ MatchBeginning(FirstMatch(cfg)).sub = "playing"

\* C22: after a tick in which Main Menu of the pause overlay ran,
\* menu_state is MENU_MAIN, in_countdown, in_celebration, time_up_state
\* and confirm_modal are false, both effects are inactive, and a match
\* started then begins like a first match: the countdown from 3, then
\* Playing with the configured serve direction.
C22_MainMenuExitsMatch ==
    MainMenuTick => NoSubStateSurvives /\ NextMatchLikeFirst

----------------------------------------------------------------------------
(* Claims checked under SpecRender                                         *)

DrawOps == {"clear_screen", "render_rect_pixels", "render_rect",
            "render_glyph_5x7", "render_text"}

\* The buffer is unallocated or the viewport is degenerate.
Degenerate(rs) == rs.memory.null \/ rs.width = 0 \/ rs.height = 0

\* C23: with memory null, or width or height 0, none of clear_screen,
\* render_rect, render_rect_pixels, render_glyph_5x7 and render_text
\* stores a pixel, inside or outside the buffer.
C23_DegenerateDrawsNothing ==
    (io.op \in DrawOps /\ Degenerate(win.render_state)) =>
        io.stores = {} /\ io.faults = {}

\* A rectangle over the whole i32 range drawn while the window is
\* minimised (the old buffer is still allocated, width = height = 0).
C23_Witness ==
    /\ io.op = "render_rect_pixels"
    /\ ~win.render_state.memory.null
    /\ win.render_state.memory.size > 0
    /\ win.render_state.width = 0
    /\ io.args[1] = I32Min /\ io.args[3] = I32Max
    /\ io.args[2] = I32Min
    /\ io.stores = {}

\* The pixels of the viewport inside the pixel rectangle r, as indices.
ClippedRect(rs, r) ==
    {x + y * rs.width : x \in {v \in 0 .. (rs.width - 1) :
                                  r[1] <= v /\ v < r[3]},
                        y \in {v \in 0 .. (rs.height - 1) :
                                  r[2] <= v /\ v < r[4]}}

\* The pixel rectangle the last operation asked for.
RequestedRect ==
    IF io.op = "render_rect"
    THEN RectPixels(win.render_state, io.args[1], io.args[2],
                    io.args[3], io.args[4])
    ELSE io.args

\* C24: render_rect and render_rect_pixels store only to indices in
\* [0, width * height), never outside the buffer, and with a buffer they
\* store to exactly the pixels of the requested pixel rectangle that lie
\* in the viewport.
C24_RectClipped ==
    io.op \in {"render_rect", "render_rect_pixels"} =>
        /\ io.stores \subseteq
             0 .. (win.render_state.width * win.render_state.height - 1)
        /\ io.faults = {}
        /\ ~win.render_state.memory.null =>
             io.stores = ClippedRect(win.render_state, RequestedRect)

\* A rectangle from the least to the greatest i32 in x that starts inside
\* the viewport in y: part of the viewport is stored to, not all of it.
C24_Witness ==
    /\ io.op = "render_rect_pixels"
    /\ io.args[1] = I32Min /\ io.args[3] = I32Max
    /\ io.args[2] = 1 /\ io.args[4] = I32Max
    /\ io.stores # {}
    /\ Cardinality(io.stores)
         < win.render_state.width * win.render_state.height

\* The glyph the table is meant to hold for the char value c.
OwnGlyph(c) ==
    IF c \in 48 .. 57 THEN c - 48
    ELSE IF c \in 65 .. 90 THEN c - 55
    ELSE CASE c = 37 -> 37
           [] c = 58 -> 38
           [] c = 45 -> 39
           [] c = 33 -> 40
           [] OTHER -> 36

\* C25: for every char value render_glyph_5x7 computes an index inside
\* FONT_5x7 (0..40); digits, A-Z, '%', ':', '-' and '!' get their own
\* glyph and every other value the blank glyph 36, whose rows are all 0.
C25_GlyphIndexInTable ==
    /\ Len(FONT_5x7) = 41
    /\ \A i \in 1 .. 7 : FONT_5x7[36 + 1][i] = 0
    /\ (io.op = "render_glyph_5x7" /\ io.idx # -1) =>
          /\ io.idx \in 0 .. (Len(FONT_5x7) - 1)
          /\ io.idx = OwnGlyph(io.args[1])

\* The least signed char value is drawn as the blank glyph.
C25_Witness ==
    /\ io.op = "render_glyph_5x7"
    /\ io.args[1] = -128
    /\ io.idx = 36
    /\ ~Degenerate(win.render_state)
    /\ io.stores = {}

\* C26: a tick of a match that is not a Restart decreases neither score
\* and raises their sum by at most 1, and the scores change only in the
\* Playing sub-state outside time-up, never in Countdown, Celebration, the
\* pause overlay or time-up.
C26_ScoresMonotonic ==
    (obs.op = "tick" /\ ~RestartTick) =>
        /\ p1.score >= obs.pre.p1.score
        /\ p2.score >= obs.pre.p2.score
        /\ p1.score + p2.score <= obs.pre.p1.score + obs.pre.p2.score + 1
        /\ (p1.score # obs.pre.p1.score \/ p2.score # obs.pre.p2.score) =>
              obs.branch = "playing" /\ ~obs.pre.win.time_up_state

\* A Playing tick in which a goal raised one score by 1.
C26_Witness ==
    /\ obs.op = "tick"
    /\ ~RestartTick
    /\ obs.branch = "playing"
    /\ p1.score + p2.score = obs.pre.p1.score + obs.pre.p2.score + 1
    /\ ball.scored

\* The countdown cues of the game state g, in order.
CountdownCues(g) ==
    SelectSeq(g.cues, LAMBDA c : c \in {"countdown_tick", "go_tick"})

\* The countdown as seen after k threshold ticks from g.
CountdownAfter(g, k) ==
    LET h == QuietTicks(g, 40, k)
    IN  [value |-> h.win.countdown_value,
         text |-> CountdownText(h.win.countdown_value),
         in_countdown |-> h.win.in_countdown,
         cues |-> CountdownCues(h)]

\* C27: while the countdown runs the text is one of 3, 2, 1, GO; from a
\* match start or Restart (countdown_value 3) four threshold ticks take
\* countdown_value over 2, 1, 0 to -1 with the cues countdown-tick,
\* countdown-tick, go-tick, none, and the countdown is left only on the
\* fourth; a tick never lowers the value by more than 1, and a tick that
\* leaves Countdown for gameplay is the crossing from 0 to -1 and leaves
\* the match clock at 0 and active with time_up_state false.
C27_CountdownOrder ==
    /\ Branch(win) = "countdown" =>
         /\ win.countdown_value \in 0 .. 3
         /\ CountdownText(win.countdown_value) \in {"3", "2", "1", "GO!"}
    /\ (Branch(win) = "countdown" /\ win.countdown_value = 3
        /\ win.countdown_time = 0) =>
         /\ CountdownAfter(CurrentGame, 1) =
              [value |-> 2, text |-> "2", in_countdown |-> TRUE,
               cues |-> <<"countdown_tick">>]
         /\ CountdownAfter(CurrentGame, 2) =
              [value |-> 1, text |-> "1", in_countdown |-> TRUE,
               cues |-> <<"countdown_tick">>]
         /\ CountdownAfter(CurrentGame, 3) =
              [value |-> 0, text |-> "GO!", in_countdown |-> TRUE,
               cues |-> <<"go_tick">>]
         /\ CountdownAfter(CurrentGame, 4) =
              [value |-> -1, text |-> "GO!", in_countdown |-> FALSE,
               cues |-> <<>>]
    /\ (CountdownTick /\ ~PauseLeftMatch) =>
         win.countdown_value \in {obs.pre.win.countdown_value,
                                  obs.pre.win.countdown_value - 1}
    /\ (CountdownTick /\ ~win.in_countdown
        /\ win.menu_state = "MENU_PLAYING") =>
         /\ obs.pre.win.countdown_value = 0
         /\ obs.pre.win.countdown_time + obs.dt >= 35
         /\ win.countdown_value = -1
         /\ CueCount({"countdown_tick", "go_tick"}) = 0
         /\ win.game_time_elapsed = 0
         /\ win.game_timer_active
         /\ ~win.time_up_state

\* The tick that ends a countdown: the value went from 0 to -1 without a
\* cue and gameplay begins with the clock at 0.
C27_Witness ==
    /\ CountdownTick
    /\ ~win.in_countdown
    /\ win.menu_state = "MENU_PLAYING"
    /\ obs.pre.win.countdown_value = 0
    /\ win.countdown_value = -1
    /\ obs.cues = <<>>
    /\ win.game_time_elapsed = 0
    /\ win.game_timer_active

\* The longest remaining particle life of the burst b, 0 when inactive.
MaxLife(b) ==
    IF b.active /\ b.particles # <<>>
    THEN CHOOSE m \in {b.particles[i] : i \in DOMAIN b.particles} :
            \A i \in DOMAIN b.particles : b.particles[i] <= m
    ELSE 0

\* The time the flash f still needs to fade out, in 1/CS seconds (rounded
\* up), 0 when inactive.
FadeTime(f) ==
    IF f.active THEN (f.alpha * CS + FadeSpeed * U - 1) \div (FadeSpeed * U)
    ELSE 0

\* The time of play the effects b and f still need to finish both.
EffectsTimeLeft(b, f) == Max(MaxLife(b), FadeTime(f))

\* C28: during a celebration the effects need at most 1.0 s more (every
\* particle life is <= lifetime, the flash fades in 1/3 s); a Celebration
\* tick with dt > 0 and no Restart or Main Menu action reduces the time
\* they need by dt and ends the celebration when it is used up, so the
\* celebration ends within 1.0 s of accumulated dt: one tick of 1.0 s or
\* three of 0.4 s from any celebration state end it, into Playing when the
\* overlay is closed.
C28_CelebrationEnds ==
    /\ win.in_celebration =>
         /\ EffectsTimeLeft(burst, flash) <= BurstLifetime
         /\ FadeTime(flash) <= (CS + FadeSpeed - 1) \div FadeSpeed
    /\ (win.menu_state = "MENU_PLAYING" /\ Branch(win) = "celebration") =>
         /\ \A h \in {QuietTicks(CurrentGame, CS, 1)} :
              /\ ~h.win.in_celebration
              /\ ~win.confirm_modal => SubState(h.win) = "playing"
         /\ ~QuietTicks(CurrentGame, 40, 3).win.in_celebration
    /\ (CelebrationTick /\ obs.dt > 0 /\ ~PauseLeftMatch) =>
         /\ EffectsTimeLeft(obs.pre.burst, obs.pre.flash) <= obs.dt =>
              /\ ~win.in_celebration
              /\ ~win.confirm_modal => Branch(win) = "playing"
         /\ win.in_celebration =>
              EffectsTimeLeft(burst, flash)
                <= EffectsTimeLeft(obs.pre.burst, obs.pre.flash) - obs.dt

\* The third Celebration tick of 0.4 s after a goal whose burst has a
\* particle of the longest life: 0.2 s were left, and play goes on.
C28_Witness ==
    /\ CelebrationTick
    /\ obs.dt = 40
    /\ ~PauseLeftMatch
    /\ EffectsTimeLeft(obs.pre.burst, obs.pre.flash) = 20
    /\ ~win.in_celebration
    /\ Branch(win) = "playing"

----------------------------------------------------------------------------
(* Further claims checked under SpecBall                                   *)

\* The paddle a BallController::update collided with (obs.hits is not empty).
HitPaddle == IF 1 \in obs.hits THEN p1 ELSE p2

\* What a paddle collision adds to vel.y: hit_influence + paddle_influence
\* + 0.0001, with the ball at height y.
PaddleSpin(q, y) == MulDiv(y - q.y, 38 * U, q.height) + TDiv(q.dp, 5) + 1

\* C31: after every BallController::update the ball has |pos.y| <= 50 - size.
\* When the integrated position is beyond the top or the bottom wall the
\* update puts pos.y on that wall and negates vel.y once (a second negation
\* by the other paddle's add_collision would restore it), so without a paddle
\* hit vel.y ends as minus the velocity before the update, and with a paddle
\* hit as minus that velocity plus what the paddle adds; an update whose
\* integrated position is inside the walls does not bounce.
C31_WallBounceOnce ==
    obs.op = "ball_update" =>
        /\ Abs(ball.y) <= 50 * U - BallSize
        /\ obs.walls <= 1
        /\ obs.moved =>
             LET top    == obs.mid.y + BallSize > 50 * U
                 bottom == obs.mid.y - BallSize < -50 * U
             IN  /\ obs.walls = (IF top \/ bottom THEN 1 ELSE 0)
                 /\ top => ball.y = 50 * U - BallSize
                 /\ bottom => ball.y = -50 * U + BallSize
                 /\ (top \/ bottom) =>
                      ball.vy = -obs.pre.vy
                                + (IF obs.hits = {} THEN 0
                                   ELSE PaddleSpin(HitPaddle, ball.y))
                 /\ (~top /\ ~bottom /\ obs.hits = {}) =>
                      /\ ball.y = obs.mid.y
                      /\ ball.vy = obs.pre.vy

\* C31 witness: an update that moved the ball beyond the top wall, with both
\* add_collision calls made (no goal), left it on the wall with vel.y turned
\* round.
C31_Witness ==
    /\ obs.op = "ball_update"
    /\ obs.moved
    /\ obs.mid.y + BallSize > 50 * U
    /\ ~ball.scored
    /\ obs.walls = 1
    /\ ball.y = 50 * U - BallSize
    /\ obs.pre.vy > 0
    /\ ball.vy = -obs.pre.vy

\* C32: one BallController::update takes the paddle-overlap branch in at
\* most one of its two add_collision calls; the paddles are at x = -70 and
\* x = 70 with half-width 2 and the ball has size 1.2, and the ball a hit
\* leaves beside one paddle does not overlap the other.
C32_OnePaddlePerUpdate ==
    obs.op = "ball_update" =>
        /\ Cardinality(obs.hits) <= 1
        /\ p1.x = -70 * U /\ p2.x = 70 * U
        /\ p1.width = 2 * U /\ p2.width = 2 * U
        /\ (1 \in obs.hits => Abs(ball.x - p2.x) > p2.width + BallSize)

\* C32 witness: an update hit player 1's paddle in its first add_collision
\* and then made the second call, for player 2's paddle at the same height.
C32_Witness ==
    /\ obs.op = "ball_update"
    /\ obs.hits = {1}
    /\ ~ball.scored
    /\ Abs(ball.y - p2.y) <= p2.height + BallSize

\* C38: a paddle collision leaves the ball on the field side of the paddle,
\* moving away from it: after a collision with the left paddle the ball is
\* at paddle.x + width + size with vel.x > 0, after a collision with the
\* right paddle at paddle.x - width - size with vel.x < 0.
C38_BallOnFieldSide ==
    obs.op = "ball_update" =>
        /\ (1 \in obs.hits =>
              /\ ball.x = p1.x + p1.width + BallSize
              /\ ball.vx > 0)
        /\ (2 \in obs.hits =>
              /\ ball.x = p2.x - p2.width - BallSize
              /\ ball.vx < 0)

----------------------------------------------------------------------------
(* Further claims checked under SpecMatch                                  *)

\* C33: in every state FlashEffect has 0 <= alpha <= 1 and is active
\* exactly when alpha > 0, also after the Restart and Main Menu actions of
\* the pause overlay.  (Those actions clear active and leave alpha.)
C33_FlashActiveIffVisible ==
    /\ 0 <= flash.alpha
    /\ flash.alpha <= U
    /\ flash.active <=> flash.alpha > 0

----------------------------------------------------------------------------
(* Claims checked under SpecInput                                          *)

\* C34: is_pressed is an edge.  After the message pump of an iteration
\* is_pressed(k) holds only if k was up at the end of the previous iteration
\* and a key-down message for k was processed in this one, so a key that
\* stays down, repeated key-down messages included, is not reported pressed
\* again; and is_pressed(k) and is_released(k) never hold together.
C34_PressedIsEdge ==
    obs.op = "pump" =>
        \A k \in Keys :
            /\ is_pressed(buttons, k) =>
                 /\ ~obs.pre[k].is_down
                 /\ \E i \in 1..Len(obs.evs) :
                      obs.evs[i] = [key |-> k, down |-> TRUE]
            /\ ~(is_pressed(buttons, k) /\ is_released(buttons, k))

----------------------------------------------------------------------------
(* Further claims checked under SpecRender                                 *)

----------------------------------------------------------------------------
(* Further claims checked under SpecMatch                                  *)

\* The last tick began with the pause overlay open outside countdown and
\* celebration (in the Playing or the Time-up sub-state).
OverlayTick == obs.op = "tick" /\ obs.branch = "overlay"

\* C36 as stated: a tick that begins with the pause overlay open in the
\* Playing or Time-up sub-state changes neither the ball, the paddles, the
\* scores, game_time_elapsed nor time_up_delay.
C36_OverlayFreezes ==
    OverlayTick =>
        /\ ball = obs.pre.ball
        /\ p1 = obs.pre.p1
        /\ p2 = obs.pre.p2
        /\ win.game_time_elapsed = obs.pre.win.game_time_elapsed
        /\ win.time_up_delay = obs.pre.win.time_up_delay

\* C36 (corrected): a tick that begins with the pause overlay open in the
\* Playing or Time-up sub-state and runs neither Restart nor Main Menu
\* changes neither the ball, the paddles, the scores, the effects nor any
\* variable of the match (game_time_elapsed and time_up_delay included)
\* except the overlay's selection index and, when Esc or Resume closes the
\* overlay, confirm_modal.
C36_OverlayFreezesUnlessLeft ==
    (OverlayTick /\ ~RestartTick /\ ~MainMenuTick) =>
        /\ ball = obs.pre.ball
        /\ p1 = obs.pre.p1
        /\ p2 = obs.pre.p2
        /\ burst = obs.pre.burst
        /\ flash = obs.pre.flash
        /\ win = [obs.pre.win EXCEPT !.paused_index = win.paused_index,
                                     !.confirm_modal = win.confirm_modal]
        /\ (win.paused_index # obs.pre.win.paused_index
              => CueCount({"navigation"}) > 0)

\* C36 witness: an overlay tick of positive length in the Time-up sub-state,
\* after a ball that was in flight, moved the selection and left the overlay
\* open.
C36_Witness ==
    /\ OverlayTick
    /\ obs.dt > 0
    /\ obs.pre.win.time_up_state
    /\ win.confirm_modal
    /\ win.paused_index # obs.pre.win.paused_index
    /\ ball.vx # 0 /\ ball.x # 0

\* C37: the pause overlay takes effect only from Playing.  A tick of the
\* Countdown or the Celebration sub-state that begins with confirm_modal
\* false ends with it false (Esc does not open the overlay there); no tick
\* that begins with confirm_modal true is a Countdown or Celebration tick
\* (the countdown and the celebration effects do not advance while it is
\* true); and no Countdown or Celebration tick runs Resume, Restart or Main
\* Menu (button.mp3 is played by these actions only).
C37_OverlayOnlyFromPlaying ==
    obs.op = "tick" =>
        /\ (/\ obs.branch \in {"countdown", "celebration"}
            /\ ~obs.pre.win.confirm_modal)
               => (~win.confirm_modal /\ CueCount({"button"}) = 0)
        /\ obs.pre.win.confirm_modal
               => obs.branch \notin {"countdown", "celebration"}

----------------------------------------------------------------------------
(* Claims checked under SpecNav                                            *)

\* The selection after the Up / Down presses of the last tick, in a list of
\* n items with item i selected before: Up from the first item goes to the
\* last, Down from the last to the first.
Navigated(i, n) ==
    LET up == is_pressed(buttons, "UP_ARROW") \/ is_pressed(buttons, "UP")
        dn == is_pressed(buttons, "DOWN_ARROW") \/ is_pressed(buttons, "DOWN")
        a  == IF up THEN (IF i = 0 THEN n - 1 ELSE i - 1) ELSE i
    IN  IF dn THEN (IF a = n - 1 THEN 0 ELSE a + 1) ELSE a

\* C39: after any sequence of Up / Down presses menu_index is in 0..3,
\* settings_index in 0..8 and paused_index in 0..2; on each screen Up moves
\* the selection one item up and from the first item to the last, Down one
\* item down and from the last to the first; and Enter in the main menu
\* acts on exactly the selected item: 0 starts a match against the AI, 1 a
\* match against a friend, 2 opens Settings, 3 ends the program.
C39_SelectionInRange ==
    /\ win.menu_index \in 0 .. 3
    /\ win.settings_index \in 0 .. 8
    /\ win.paused_index \in 0 .. 2
    /\ obs.op = "tick" =>
         /\ obs.branch = "menu" =>
              win.menu_index = Navigated(obs.pre.win.menu_index, 4)
         /\ obs.branch = "settings" =>
              win.settings_index = Navigated(obs.pre.win.settings_index, 9)
         /\ obs.branch = "overlay" =>
              win.paused_index = Navigated(obs.pre.win.paused_index, 3)
         /\ (obs.branch = "menu" /\ ~is_pressed(buttons, "ENTER")) =>
              win.menu_state = "MENU_MAIN" /\ win.running
         /\ (obs.branch = "menu" /\ is_pressed(buttons, "ENTER")) =>
              /\ win.menu_index = 0 =>
                   /\ win.menu_state = "MENU_PLAYING" /\ win.running
                   /\ win.in_countdown /\ p2.ai_mode
              /\ win.menu_index = 1 =>
                   /\ win.menu_state = "MENU_PLAYING" /\ win.running
                   /\ win.in_countdown /\ ~p2.ai_mode
              /\ win.menu_index = 2 =>
                   win.menu_state = "MENU_SETTINGS" /\ win.running
              /\ win.menu_index = 3 =>
                   win.menu_state = "MENU_MAIN" /\ ~win.running

\* C39 witness: in Settings, opened with Enter on item 2 of the main menu,
\* Down from the last item has wrapped to the first.
C39_Witness ==
    /\ obs.op = "tick"
    /\ obs.branch = "settings"
    /\ obs.pre.win.settings_index = 8
    /\ win.settings_index = 0
    /\ is_pressed(buttons, "DOWN")

====
